---- MODULE Spec2Model ----
(***************************************************************************)
(* Verification model of the UniqueDeep streaming-event normalizer.        *)
(*                                                                         *)
(* Part 1: ToolCallTracker (src/uniquedeep/stream/tracker.py), the         *)
(* accumulator of incrementally arriving tool calls, together with the     *)
(* json.loads parse that finalize_all applies to the fragment buffer.      *)
(*                                                                         *)
(* Strings that the code inspects character by character (the JSON         *)
(* fragment buffer) are sequences of one-character strings.  Strings that  *)
(* the code only tests for emptiness and equality (tool ids, tool names)   *)
(* are TLA+ strings.                                                       *)
(***************************************************************************)
EXTENDS Integers, Sequences, FiniteSets, TLC

(***************************************************************************)
(* Bounds of the model.                                                    *)
(***************************************************************************)
\* longest fragment buffer a record accumulates
MaxBuf == 7
\* number of tracker operations in one behaviour
MaxOps == 4

(***************************************************************************)
(* Python values.                                                          *)
(***************************************************************************)
\* Python's None, for an Optional[str] parameter
None == "<None>"

\* A JSON / Python value is a record [kind, lit, items]:
\*   kind "dict": items is the set of <<key, value>> pairs (keys unique)
\*   kind "list": items is the set of <<index digits, value>> pairs
\*   kind "num" : lit is the digit string
\*   kind "str" : lit is the characters of the string
\*   kind "bool": lit is true or false
\*   kind "none": Python's None
NoneArgs == [kind |-> "none", lit |-> <<>>, items |-> {}]
EmptyDict == [kind |-> "dict", lit |-> <<>>, items |-> {}]
Num(ds) == [kind |-> "num", lit |-> ds, items |-> {}]
Str(cs) == [kind |-> "str", lit |-> cs, items |-> {}]
Dict(ps) == [kind |-> "dict", lit |-> <<>>, items |-> ps]
List(ps) == [kind |-> "list", lit |-> <<>>, items |-> ps]
Bool(b) == [kind |-> "bool",
            lit |-> IF b THEN <<"t", "r", "u", "e">> ELSE <<"f", "a", "l", "s", "e">>,
            items |-> {}]

\* d[k] = v on a dict: the last assignment to a key wins
DictPut(d, k, v) == Dict({p \in d.items : p[1] # k} \cup {<<k, v>>})

\* bool(x) of a str-or-None
TruthyStr(x) == x # None /\ x # ""

\* bool(x) of a dict-or-None
TruthyArgs(x) == x.kind # "none" /\ ~(x.kind \in {"dict", "list"} /\ x.items = {})

(***************************************************************************)
(* json.loads, as far as the characters of the model's alphabet reach:     *)
(* objects, arrays, strings with the escapes of quote, backslash, slash,   *)
(* \n, \r and \t, unsigned integers and the literals true, false and null, *)
(* with whitespace between tokens.  Any other character starts no value.   *)
(***************************************************************************)
WHITESPACE == {" ", "\t", "\n", "\r"}
Digits == {"0", "1", "2", "3", "4", "5", "6", "7", "8", "9"}
DigitChar == <<"0", "1", "2", "3", "4", "5", "6", "7", "8", "9">>

\* the decimal digits of a natural number, used as the key of a list element
RECURSIVE IdxKey(_)
IdxKey(n) == IF n < 10 THEN <<DigitChar[n + 1]>>
             ELSE Append(IdxKey(n \div 10), DigitChar[(n % 10) + 1])

ParseFail == [ok |-> FALSE, val |-> NoneArgs, pos |-> 0]
ParseOk(v, p) == [ok |-> TRUE, val |-> v, pos |-> p]

\* WHITESPACE.match(s, i).end()
RECURSIVE SkipWs(_, _)
SkipWs(s, i) == IF i <= Len(s) /\ s[i] \in WHITESPACE THEN SkipWs(s, i + 1) ELSE i

\* BACKSLASH: the character an escape sequence stands for
BACKSLASH == [c \in {"\"", "\\", "/", "n", "r", "t"} |->
                 CASE c = "n" -> "\n" [] c = "r" -> "\r" [] c = "t" -> "\t"
                   [] OTHER -> c]

\* the loop of py_scanstring: the string content goes on at i, acc is what
\* has been decoded (strict mode: a control character inside a string is an
\* error)
RECURSIVE ScanChars(_, _, _)
ScanChars(s, i, acc) ==
    IF i > Len(s) THEN ParseFail
    ELSE IF s[i] = "\"" THEN ParseOk(Str(acc), i + 1)
    ELSE IF s[i] \in {"\t", "\n", "\r"} THEN ParseFail
    ELSE IF s[i] # "\\" THEN ScanChars(s, i + 1, Append(acc, s[i]))
    ELSE IF i + 1 > Len(s) \/ s[i + 1] \notin DOMAIN BACKSLASH THEN ParseFail
    ELSE ScanChars(s, i + 2, Append(acc, BACKSLASH[s[i + 1]]))

\* scanstring: s[i] is the opening quote
ScanString(s, i) == ScanChars(s, i + 1, <<>>)

\* the literal lit at i, if it is there
ScanLiteral(s, i, lit, val) ==
    IF i + Len(lit) - 1 <= Len(s) /\ SubSeq(s, i, i + Len(lit) - 1) = lit
    THEN ParseOk(val, i + Len(lit)) ELSE ParseFail

\* end of the run of digits starting at i
RECURSIVE DigitsEnd(_, _)
DigitsEnd(s, i) == IF i <= Len(s) /\ s[i] \in Digits THEN DigitsEnd(s, i + 1) ELSE i

\* NUMBER_RE, integer part: 0 | [1-9][0-9]*
ScanNumber(s, i) ==
    LET j == IF s[i] = "0" THEN i + 1 ELSE DigitsEnd(s, i)
    IN  ParseOk(Num(SubSeq(s, i, j - 1)), j)

RECURSIVE ScanOnce(_, _)
RECURSIVE ObjectMembers(_, _, _)
RECURSIVE ArrayElements(_, _, _, _)

\* JSONObject: i is the position after the opening brace
JSONObject(s, i) ==
    LET j == SkipWs(s, i)
    IN  IF j > Len(s) THEN ParseFail
        ELSE IF s[j] = "}" THEN ParseOk(EmptyDict, j + 1)
        ELSE IF s[j] # "\"" THEN ParseFail
        ELSE ObjectMembers(s, j, EmptyDict)

\* the loop of JSONObject: s[i] is the opening quote of the next key
ObjectMembers(s, i, acc) ==
    LET k == ScanString(s, i)
    IN  IF ~k.ok THEN ParseFail
        ELSE LET c == SkipWs(s, k.pos)
             IN  IF c > Len(s) \/ s[c] # ":" THEN ParseFail
                 ELSE LET v == ScanOnce(s, SkipWs(s, c + 1))
                      IN  IF ~v.ok THEN ParseFail
                          ELSE LET e == SkipWs(s, v.pos)
                                   acc2 == DictPut(acc, k.val.lit, v.val)
                               IN  IF e > Len(s) THEN ParseFail
                                   ELSE IF s[e] = "}" THEN ParseOk(acc2, e + 1)
                                   ELSE IF s[e] # "," THEN ParseFail
                                   ELSE LET n == SkipWs(s, e + 1)
                                        IN  IF n > Len(s) \/ s[n] # "\"" THEN ParseFail
                                            ELSE ObjectMembers(s, n, acc2)

\* JSONArray: i is the position after the opening bracket
JSONArray(s, i) ==
    LET j == SkipWs(s, i)
    IN  IF j > Len(s) THEN ParseFail
        ELSE IF s[j] = "]" THEN ParseOk(List({}), j + 1)
        ELSE ArrayElements(s, j, {}, 0)

\* the loop of JSONArray: the next element starts at i
ArrayElements(s, i, acc, n) ==
    LET v == ScanOnce(s, i)
    IN  IF ~v.ok THEN ParseFail
        ELSE LET e == SkipWs(s, v.pos)
                 acc2 == acc \cup {<<IdxKey(n), v.val>>}
             IN  IF e > Len(s) THEN ParseFail
                 ELSE IF s[e] = "]" THEN ParseOk(List(acc2), e + 1)
                 ELSE IF s[e] # "," THEN ParseFail
                 ELSE ArrayElements(s, SkipWs(s, e + 1), acc2, n + 1)

\* scan_once: the value that starts exactly at i
ScanOnce(s, i) ==
    IF i > Len(s) THEN ParseFail
    ELSE IF s[i] = "\"" THEN ScanString(s, i)
    ELSE IF s[i] = "{" THEN JSONObject(s, i + 1)
    ELSE IF s[i] = "[" THEN JSONArray(s, i + 1)
    ELSE IF s[i] \in Digits THEN ScanNumber(s, i)
    ELSE IF s[i] = "n" THEN ScanLiteral(s, i, <<"n", "u", "l", "l">>, NoneArgs)
    ELSE IF s[i] = "t" THEN ScanLiteral(s, i, <<"t", "r", "u", "e">>, Bool(TRUE))
    ELSE IF s[i] = "f" THEN ScanLiteral(s, i, <<"f", "a", "l", "s", "e">>, Bool(FALSE))
    ELSE ParseFail

\* json.loads(s): [ok |-> FALSE] stands for JSONDecodeError
json_loads(s) ==
    LET v == ScanOnce(s, SkipWs(s, 1))
    IN  IF ~v.ok THEN ParseFail
        ELSE IF SkipWs(s, v.pos) # Len(s) + 1 THEN ParseFail
        ELSE v

(***************************************************************************)
(* Inputs of the tracker operations.                                       *)
(***************************************************************************)
\* call ids: stream_events passes only non-empty ids to the tracker
ToolIds == {"t1", "t2"}
\* args arguments of update: {"a": 1} and {"b": 2}
ArgsA == Dict({<<(<<"a">>), Num(<<"1">>)>>})
ArgsB == Dict({<<(<<"b">>), Num(<<"2">>)>>})
\* the (name, args, args_complete) arguments of update: a name or an args
\* that is absent (None), empty or non-empty, with and without args_complete
UpdIn(n, a, c) == [name |-> n, args |-> a, args_complete |-> c]
UpdateInputs ==
    {UpdIn(None, EmptyDict, FALSE), UpdIn(None, ArgsA, FALSE),
     UpdIn("bash", NoneArgs, FALSE), UpdIn("bash", ArgsA, FALSE),
     UpdIn("grep", ArgsB, FALSE),
     UpdIn("", ArgsB, TRUE), UpdIn("grep", EmptyDict, TRUE)}
\* partial_json arguments of append_json_delta; the object {"a":1} arrives
\* whole or split at one of two places, FragBad is not JSON, FragNum is a
\* JSON number
FragWhole == <<"{", "\"", "a", "\"", ":", "1", "}">>
FragOpenKey == <<"{", "\"", "a">>
FragRestVal == <<"\"", ":", "1", "}">>
FragOpenColon == <<"{", "\"", "a", "\"", ":">>
FragVal == <<"1", "}">>
FragBad == <<"x", "{">>
FragNum == <<"1">>
Fragments ==
    {FragWhole, FragOpenKey, FragRestVal, FragOpenColon, FragVal, FragBad, FragNum}

(***************************************************************************)
(* State.                                                                  *)
(***************************************************************************)
VARIABLES
    _calls,          \* ToolCallTracker._calls: the dict, as its entries
                     \* [key, val] in insertion order
    _last_tool_id,   \* ToolCallTracker._last_tool_id
    lastOp,          \* history: the operation called last and its arguments
    hist,            \* history: what the callers have done so far
    nops,            \* history: number of operations called
    cls,             \* the classifier of tool results: the content handed to
                     \* it, the function called on it and what it returned
    strm,            \* one call of stream_events: the position of the
                     \* generator, the events yielded and full_response (its
                     \* tracker is _calls and _last_tool_id)
    sse,             \* one run of event_stream of the web bridge: its
                     \* position, the frames written, error_emitted and the
                     \* events received
    ui,              \* the renderer's StreamState, and the event handled last
    tool,            \* the built-in tool run last: what it was given and the
                     \* text it returned
    agent            \* LangChainSkillsAgent: its configuration, the agent it
                     \* has built and the method called last

vars == <<_calls, _last_tool_id, lastOp, hist, nops, cls, strm, sse, ui, tool, agent>>

\* the components that a behaviour of the tracker leaves alone
NoCls == [content |-> <<>>, op |-> "idle", content_type |-> "none", success |-> FALSE]
\* strm: pc is the position of the generator ("idle": not called), out the
\* events yielded so far, updates[id] the number of tool messages handled
\* while id was tracked, nchunks the number of chunks consumed, last what
\* the last chunk was, stage[id] how far the turn of id has come: 1 when a
\* chunk has made id known together with its name, 2 when argument fragments
\* have then reached its buffer, 3 when a tool message has followed
NoStrm == [pc |-> "idle", out |-> <<>>, full_response |-> <<>>,
           updates |-> [id \in {"t1", "t2"} |-> 0], nchunks |-> 0,
           last |-> "none", stage |-> [id \in {"t1", "t2"} |-> 0]]
\* sse: pc is the position of event_stream ("idle": not called), fed the
\* events received from the agent so far
NoSse == [pc |-> "idle", frames |-> <<>>, error_emitted |-> FALSE, fed |-> <<>>,
          closed_by |-> "none"]
\* StreamState(), with the history of the events handled: n their number,
\* last the event handled last
NewStreamState ==
    [thinking_text |-> <<>>, response_text |-> <<>>, tool_calls |-> <<>>,
     tool_results |-> <<>>, is_thinking |-> FALSE, is_responding |-> FALSE,
     is_processing |-> FALSE, n |-> 0, last |-> NoneArgs]
\* tool: name is the tool run last ("none": no tool was run), ran whether
\* its command ran to its exit, returncode the exit code, failed whether the
\* tool reports a failure, result the text returned, n the number of runs
NoTool == [name |-> "none", ran |-> FALSE, returncode |-> 0, failed |-> FALSE,
           result |-> <<>>, n |-> 0]
\* agent: op is the method called last ("none": there is no agent), arg the
\* temperature it was given, ret what it returned, n the number of calls,
\* env the environment variables of the process; agent is the agent built
\* by _create_agent, as the arguments it was built with; temperatures are
\* counted in tenths
NoAgent == [op |-> "none", arg |-> 0, ret |-> "none", n |-> 0, env |-> "none",
            model_name |-> <<>>, provider |-> "none", api_key |-> "none",
            base_url |-> "none", temperature |-> 0, enable_thinking |-> FALSE,
            agent |-> "none"]
Idle ==
    /\ cls = NoCls /\ strm = NoStrm /\ sse = NoSse /\ ui = NewStreamState
    /\ tool = NoTool /\ agent = NoAgent

(***************************************************************************)
(* dict operations on the entry list.                                      *)
(***************************************************************************)
Keys(calls) == {calls[i].key : i \in 1..Len(calls)}

\* position of key k in the dict (k is a key of it)
IndexOf(calls, k) == CHOOSE i \in 1..Len(calls) : calls[i].key = k

\* calls[k]
Lookup(calls, k) == calls[IndexOf(calls, k)].val

\* calls[k] = v: replaces the value of an existing key in place, else appends
DictSet(calls, k, v) ==
    IF k \in Keys(calls)
    THEN [i \in 1..Len(calls) |-> IF calls[i].key = k THEN [key |-> k, val |-> v]
                                                        ELSE calls[i]]
    ELSE Append(calls, [key |-> k, val |-> v])

(***************************************************************************)
(* ToolCallInfo and the methods of ToolCallTracker, as functions of the    *)
(* tracker state tr = [calls, last].                                       *)
(***************************************************************************)
ToolCallInfo(id, name, args, args_complete) ==
    [id |-> id, name |-> name, args |-> args, emitted |-> FALSE,
     args_complete |-> args_complete, _json_buffer |-> <<>>]

NewTracker == [calls |-> <<>>, last |-> None]

\* update that assigns args_complete whatever value is passed
update_reset(tr, tool_id, name, args, args_complete) ==
    IF tool_id \notin Keys(tr.calls)
    THEN [calls |-> DictSet(tr.calls, tool_id,
                        ToolCallInfo(tool_id,
                                     IF TruthyStr(name) THEN name ELSE "",
                                     IF TruthyArgs(args) THEN args ELSE EmptyDict,
                                     args_complete)),
          last |-> tool_id]
    ELSE LET info == Lookup(tr.calls, tool_id)
             info1 == IF TruthyStr(name) THEN [info EXCEPT !.name = name] ELSE info
             info2 == IF TruthyArgs(args) THEN [info1 EXCEPT !.args = args] ELSE info1
             info3 == [info2 EXCEPT !.args_complete = args_complete]
         IN  [calls |-> DictSet(tr.calls, tool_id, info3), last |-> tr.last]

\* update that merges the args mapping key by key (dict.update)
update_merge(tr, tool_id, name, args, args_complete) ==
    IF tool_id \notin Keys(tr.calls)
    THEN [calls |-> DictSet(tr.calls, tool_id,
                        ToolCallInfo(tool_id,
                                     IF TruthyStr(name) THEN name ELSE "",
                                     IF TruthyArgs(args) THEN args ELSE EmptyDict,
                                     args_complete)),
          last |-> tool_id]
    ELSE LET info == Lookup(tr.calls, tool_id)
             info1 == IF TruthyStr(name) THEN [info EXCEPT !.name = name] ELSE info
             info2 == IF TruthyArgs(args)
                      THEN [info1 EXCEPT !.args =
                              Dict({q \in info.args.items :
                                       \A p \in args.items : p[1] # q[1]}
                                   \cup args.items)]
                      ELSE info1
             info3 == IF args_complete THEN [info2 EXCEPT !.args_complete = TRUE]
                                       ELSE info2
         IN  [calls |-> DictSet(tr.calls, tool_id, info3), last |-> tr.last]

\* update that stores a new ToolCallInfo on every call
update_recreate(tr, tool_id, name, args, args_complete) ==
    [calls |-> DictSet(tr.calls, tool_id,
                   ToolCallInfo(tool_id,
                                IF TruthyStr(name) THEN name ELSE "",
                                IF TruthyArgs(args) THEN args ELSE EmptyDict,
                                args_complete)),
     last |-> tool_id]

update(tr, tool_id, name, args, args_complete) ==
    IF tool_id \notin Keys(tr.calls)
    THEN [calls |-> DictSet(tr.calls, tool_id,
                        ToolCallInfo(tool_id,
                                     IF TruthyStr(name) THEN name ELSE "",
                                     IF TruthyArgs(args) THEN args ELSE EmptyDict,
                                     args_complete)),
          last |-> tool_id]
    ELSE LET info == Lookup(tr.calls, tool_id)
             info1 == IF TruthyStr(name) THEN [info EXCEPT !.name = name] ELSE info
             info2 == IF TruthyArgs(args) THEN [info1 EXCEPT !.args = args] ELSE info1
             info3 == IF args_complete THEN [info2 EXCEPT !.args_complete = TRUE]
                                       ELSE info2
         IN  [calls |-> DictSet(tr.calls, tool_id, info3), last |-> tr.last]

\* append_json_delta that creates the record of the last id when it is gone
append_json_delta_create(tr, partial_json) ==
    LET tool_id == tr.last
    IN  IF TruthyStr(tool_id)
        THEN LET info == IF tool_id \in Keys(tr.calls)
                         THEN Lookup(tr.calls, tool_id)
                         ELSE ToolCallInfo(tool_id, "", EmptyDict, FALSE)
             IN  [calls |-> DictSet(tr.calls, tool_id,
                       [info EXCEPT !._json_buffer = info._json_buffer \o partial_json]),
                  last |-> tr.last]
        ELSE tr

\* append_json_delta that puts the fragment in front of the buffer
append_json_delta_prepend(tr, partial_json) ==
    LET tool_id == tr.last
    IN  IF TruthyStr(tool_id) /\ tool_id \in Keys(tr.calls)
        THEN LET info == Lookup(tr.calls, tool_id)
             IN  [calls |-> DictSet(tr.calls, tool_id,
                       [info EXCEPT !._json_buffer = partial_json \o info._json_buffer]),
                  last |-> tr.last]
        ELSE tr

append_json_delta(tr, partial_json) ==
    LET tool_id == tr.last
    IN  IF TruthyStr(tool_id) /\ tool_id \in Keys(tr.calls)
        THEN LET info == Lookup(tr.calls, tool_id)
             IN  [calls |-> DictSet(tr.calls, tool_id,
                       [info EXCEPT !._json_buffer = info._json_buffer \o partial_json]),
                  last |-> tr.last]
        ELSE tr

\* finalize that resets args to {} when the buffer does not parse
finalize_info_erase(info) ==
    LET parsed == json_loads(info._json_buffer)
        info1 == IF info._json_buffer # <<>>
                 THEN [info EXCEPT !.args = IF parsed.ok THEN parsed.val ELSE EmptyDict,
                                   !._json_buffer = <<>>]
                 ELSE info
    IN  [info1 EXCEPT !.args_complete = TRUE]

\* finalize that marks the args complete only where it parsed a buffer
finalize_info_parsed_only(info) ==
    LET parsed == json_loads(info._json_buffer)
    IN  IF info._json_buffer # <<>>
        THEN [info EXCEPT !.args = IF parsed.ok THEN parsed.val ELSE info.args,
                          !._json_buffer = <<>>,
                          !.args_complete = TRUE]
        ELSE info

\* the body of the loop of finalize_all, for one record
finalize_info(info) ==
    LET parsed == json_loads(info._json_buffer)
        info1 == IF info._json_buffer # <<>>
                 THEN [info EXCEPT !.args = IF parsed.ok THEN parsed.val ELSE info.args,
                                   !._json_buffer = <<>>]
                 ELSE info
    IN  [info1 EXCEPT !.args_complete = TRUE]

finalize_all(tr) ==
    [calls |-> [i \in 1..Len(tr.calls) |->
                   [key |-> tr.calls[i].key, val |-> finalize_info(tr.calls[i].val)]],
     last |-> tr.last]

\* is_ready that also waits for the args
is_ready_needs_args(tr, tool_id) ==
    IF tool_id \notin Keys(tr.calls) THEN FALSE
    ELSE LET info == Lookup(tr.calls, tool_id)
         IN  info.name # "" /\ TruthyArgs(info.args) /\ ~info.emitted

\* is_ready that forgets the emitted flag
is_ready_name_only(tr, tool_id) ==
    IF tool_id \notin Keys(tr.calls) THEN FALSE
    ELSE LET info == Lookup(tr.calls, tool_id)
         IN  info.name # ""

is_ready(tr, tool_id) ==
    IF tool_id \notin Keys(tr.calls) THEN FALSE
    ELSE LET info == Lookup(tr.calls, tool_id)
         IN  info.name # "" /\ ~info.emitted

get_all(tr) == [i \in 1..Len(tr.calls) |-> tr.calls[i].val]

mark_emitted(tr, tool_id) ==
    IF tool_id \in Keys(tr.calls)
    THEN [calls |-> DictSet(tr.calls, tool_id,
                       [Lookup(tr.calls, tool_id) EXCEPT !.emitted = TRUE]),
          last |-> tr.last]
    ELSE tr

get_pending(tr) == SelectSeq(get_all(tr), LAMBDA info : ~info.emitted)

emit_all_pending(tr) ==
    [calls |-> [i \in 1..Len(tr.calls) |->
                   [key |-> tr.calls[i].key,
                    val |-> [tr.calls[i].val EXCEPT !.emitted = TRUE]]],
     last |-> tr.last]

clear(tr) == [calls |-> <<>>, last |-> tr.last]

(***************************************************************************)
(* The tracker as a state machine: one action per public method that       *)
(* changes state, called by any client in any order.                       *)
(***************************************************************************)
Tracker == [calls |-> _calls, last |-> _last_tool_id]

Op(op, id, name, args, ac, text) ==
    [op |-> op, id |-> id, name |-> name, args |-> args,
     args_complete |-> ac, text |-> text]

NoOp == Op("init", None, None, NoneArgs, FALSE, <<>>)

\* history kept for the properties:
\*   touched: the ids passed to update since construction
\*   fresh:   no update has been called since construction or the last clear
\*   recent:  the id passed to the most recent update
\*   marked:  the ids of the records mark_emitted was called on since the
\*            last clear
\*   run:     the id and the args argument of the most recent update that
\*            created a record, and the number n and the concatenation text
\*            of the fragments passed to append_json_delta since, while only
\*            append_json_delta and the emit operations followed it
\*   fin:     the run that the most recent finalize_all ended
NoRun == [active |-> FALSE, id |-> None, args0 |-> NoneArgs, n |-> 0, text |-> <<>>]
InitHist == [touched |-> {}, fresh |-> TRUE, recent |-> None, marked |-> {},
             run |-> NoRun, fin |-> NoRun]

Install(tr) == /\ _calls' = tr.calls
               /\ _last_tool_id' = tr.last
               /\ nops' = nops + 1
               /\ UNCHANGED <<cls, strm, sse, ui, tool, agent>>

Init == /\ _calls = NewTracker.calls
        /\ _last_tool_id = NewTracker.last
        /\ lastOp = NoOp
        /\ hist = InitHist
        /\ nops = 0
        /\ Idle

Update(tool_id, name, args, args_complete) ==
    /\ nops < MaxOps
    /\ Install(update(Tracker, tool_id, name, args, args_complete))
    /\ lastOp' = Op("update", tool_id, name, args, args_complete, <<>>)
    /\ hist' = [hist EXCEPT
                  !.touched = @ \cup {tool_id},
                  !.fresh = FALSE,
                  !.recent = tool_id,
                  !.run = IF tool_id \notin Keys(_calls)
                          THEN [active |-> TRUE, id |-> tool_id, args0 |-> args,
                                n |-> 0, text |-> <<>>]
                          ELSE NoRun]

AppendJsonDelta(partial_json) ==
    /\ nops < MaxOps
    /\ \A i \in 1..Len(_calls) :
          Len(_calls[i].val._json_buffer) + Len(partial_json) <= MaxBuf
    /\ Install(append_json_delta(Tracker, partial_json))
    /\ lastOp' = Op("append_json_delta", None, None, NoneArgs, FALSE, partial_json)
    /\ hist' = [hist EXCEPT
                  !.run = IF @.active
                          THEN [@ EXCEPT !.n = @ + 1, !.text = @ \o partial_json]
                          ELSE @]

FinalizeAll ==
    /\ nops < MaxOps
    /\ Install(finalize_all(Tracker))
    /\ lastOp' = Op("finalize_all", None, None, NoneArgs, FALSE, <<>>)
    /\ hist' = [hist EXCEPT !.run = NoRun, !.fin = hist.run]

MarkEmitted(tool_id) ==
    /\ nops < MaxOps
    /\ Install(mark_emitted(Tracker, tool_id))
    /\ lastOp' = Op("mark_emitted", tool_id, None, NoneArgs, FALSE, <<>>)
    /\ hist' = [hist EXCEPT
                  !.marked = IF tool_id \in Keys(_calls) THEN @ \cup {tool_id} ELSE @]

EmitAllPending ==
    /\ nops < MaxOps
    /\ Install(emit_all_pending(Tracker))
    /\ lastOp' = Op("emit_all_pending", None, None, NoneArgs, FALSE, <<>>)
    /\ hist' = hist

Clear ==
    /\ nops < MaxOps
    /\ Install(clear(Tracker))
    /\ lastOp' = Op("clear", None, None, NoneArgs, FALSE, <<>>)
    /\ hist' = [hist EXCEPT !.fresh = TRUE, !.marked = {}, !.run = NoRun]

Next ==
    \/ \E id \in ToolIds, u \in UpdateInputs :
          Update(id, u.name, u.args, u.args_complete)
    \/ \E f \in Fragments : AppendJsonDelta(f)
    \/ FinalizeAll
    \/ \E id \in ToolIds : MarkEmitted(id)
    \/ EmitAllPending
    \/ Clear

Spec == Init /\ [][Next]_vars

TypeOK == /\ nops \in 0..MaxOps
          /\ _last_tool_id \in ToolIds \cup {None}
          /\ \A i \in 1..Len(_calls) : _calls[i].key \in ToolIds

(***************************************************************************)
(* Properties of ToolCallTracker.                                          *)
(***************************************************************************)
Has(id) == id \in Keys(_calls)
Info(id) == Lookup(_calls, id)
Records == {_calls[i].val : i \in 1..Len(_calls)}

\* C1: an id never passed to update is not ready; right after the first
\* update of an id, is_ready(id) is true exactly when that update supplied a
\* non-empty name, whatever args it supplied.
C1_ReadyAfterNamedUpdate ==
    /\ [](\A id \in ToolIds : id \notin hist.touched => ~is_ready(Tracker, id))
    /\ [][(lastOp'.op = "update" /\ lastOp'.id \notin hist.touched)
             => (is_ready(Tracker', lastOp'.id) <=> TruthyStr(lastOp'.name))]_vars

\* a first update with a name and no args has made the id ready
C1_Witness ==
    /\ nops = 1
    /\ lastOp.op = "update"
    /\ lastOp.name = "bash"
    /\ lastOp.args = NoneArgs
    /\ is_ready(Tracker, lastOp.id)

\* C2: a record that mark_emitted was called on is not ready after any later
\* operations, until clear; a repeated mark_emitted changes nothing.
C2_EmittedNeverReady ==
    /\ [](\A id \in hist.marked : Has(id) /\ Info(id).emitted /\ ~is_ready(Tracker, id))
    /\ [][(lastOp.op = "mark_emitted" /\ lastOp'.op = "mark_emitted"
              /\ lastOp'.id = lastOp.id)
             => (_calls' = _calls /\ _last_tool_id' = _last_tool_id)]_vars

\* a marked record was given a new name by a later update and is not ready
C2_Witness ==
    /\ lastOp.op = "update"
    /\ TruthyStr(lastOp.name)
    /\ lastOp.id \in hist.marked
    /\ Info(lastOp.id).name = lastOp.name
    /\ ~is_ready(Tracker, lastOp.id)

\* C3: once args_complete is true for a record, every operation other than
\* clear keeps the record and keeps its args_complete true.
C3_ArgsCompleteMonotonic ==
    [][\A id \in ToolIds :
          (Has(id) /\ Info(id).args_complete /\ lastOp'.op # "clear")
             => (id \in Keys(_calls') /\ Lookup(_calls', id).args_complete)]_vars

\* an update with args_complete=False has acted on a record finalize_all had
\* completed, and the record is still complete
C3_Witness ==
    /\ lastOp.op = "update"
    /\ ~lastOp.args_complete
    /\ hist.fin.active
    /\ hist.fin.id = lastOp.id
    /\ ~hist.fresh
    /\ Has(lastOp.id)
    /\ Info(lastOp.id).args_complete

\* C4: when update has created a record and the fragments appended since
\* concatenate to a JSON object, finalize_all sets the record's args to the
\* parsed concatenation and empties its buffer, emitted or not.
C4_FragmentConcatenation ==
    (lastOp.op = "finalize_all" /\ hist.fin.active
        /\ json_loads(hist.fin.text).ok
        /\ json_loads(hist.fin.text).val.kind = "dict")
    => /\ Has(hist.fin.id)
       /\ Info(hist.fin.id).args = json_loads(hist.fin.text).val
       /\ Info(hist.fin.id)._json_buffer = <<>>

\* a record created without args got {"a": 1} from two fragments
C4_Witness ==
    /\ lastOp.op = "finalize_all"
    /\ hist.fin.active
    /\ hist.fin.args0 = NoneArgs
    /\ hist.fin.n = 2
    /\ hist.fin.text = FragWhole
    /\ Info(hist.fin.id).args = ArgsA

\* C5: finalize_all leaves the args of a record whose buffer does not parse
\* as they were and empties the buffer; a finalize_all right after a
\* finalize_all changes nothing.
C5_MalformedKeepsArgs ==
    /\ [][lastOp'.op = "finalize_all"
             => /\ Len(_calls') = Len(_calls)
                /\ \A i \in 1..Len(_calls) :
                      (/\ _calls[i].val._json_buffer # <<>>
                       /\ ~json_loads(_calls[i].val._json_buffer).ok)
                      => /\ _calls'[i].val.args = _calls[i].val.args
                         /\ _calls'[i].val._json_buffer = <<>>]_vars
    /\ [][(lastOp.op = "finalize_all" /\ lastOp'.op = "finalize_all")
             => _calls' = _calls]_vars

\* a record created with args {"b": 2} kept them through a finalize_all of
\* a buffer that does not parse
C5_Witness ==
    /\ lastOp.op = "finalize_all"
    /\ hist.fin.active
    /\ hist.fin.args0 = ArgsB
    /\ hist.fin.text = FragBad
    /\ ~json_loads(hist.fin.text).ok
    /\ Info(hist.fin.id).args = ArgsB
    /\ Info(hist.fin.id)._json_buffer = <<>>

\* C6: after finalize_all every record has args_complete true and an empty
\* buffer.
C6_FinalizeCompletesAll ==
    lastOp.op = "finalize_all"
    => \A info \in Records : info.args_complete /\ info._json_buffer = <<>>

\* finalize_all has acted on a record without a name and on an emitted
\* record, one of which had a buffer that does not parse
C6_Witness ==
    /\ lastOp.op = "finalize_all"
    /\ hist.fin.active
    /\ hist.fin.text # <<>>
    /\ ~json_loads(hist.fin.text).ok
    /\ \E info \in Records : info.name = ""
    /\ \E info \in Records : info.emitted
    /\ \A info \in Records : info.args_complete

\* C7: update of an existing id replaces the name by a non-empty name and
\* the args by a non-empty args mapping, keeps them otherwise, and changes
\* neither the id, emitted flag and buffer of the record nor any other
\* record.
C7_UpdateMerges ==
    [][(lastOp'.op = "update" /\ Has(lastOp'.id))
          => LET i == IndexOf(_calls, lastOp'.id)
                 old == _calls[i].val
                 new == _calls'[i].val
             IN  /\ Len(_calls') = Len(_calls)
                 /\ _calls'[i].key = lastOp'.id
                 /\ new.name = IF lastOp'.name \in {None, ""} THEN old.name
                                                               ELSE lastOp'.name
                 /\ new.args = IF lastOp'.args \in {NoneArgs, EmptyDict} THEN old.args
                                                                         ELSE lastOp'.args
                 /\ new.id = old.id
                 /\ new.emitted = old.emitted
                 /\ new._json_buffer = old._json_buffer
                 /\ \A j \in 1..Len(_calls) : j # i => _calls'[j] = _calls[j]]_vars

\* update has replaced the name and the args of a record that already had a
\* buffer and args from a parsed buffer of an earlier run
C7_Witness ==
    /\ lastOp.op = "update"
    /\ lastOp.name = "grep"
    /\ lastOp.args = ArgsB
    /\ Has(lastOp.id)
    /\ Info(lastOp.id).name = "grep"
    /\ Info(lastOp.id).args = ArgsB
    /\ Info(lastOp.id)._json_buffer # <<>>
    /\ Len(_calls) = 2

\* C8: append_json_delta appends the text to the buffer of the record of the
\* id passed to the most recent update, and changes no other buffer.
C8_AppendTargetsMostRecentUpdate ==
    [][(lastOp'.op = "append_json_delta" /\ Has(hist.recent))
          => /\ Len(_calls') = Len(_calls)
             /\ \A i \in 1..Len(_calls) :
                   _calls'[i].val._json_buffer =
                      IF _calls[i].key = hist.recent
                      THEN _calls[i].val._json_buffer \o lastOp'.text
                      ELSE _calls[i].val._json_buffer]_vars

\* C9: append_json_delta changes nothing when no update has been called
\* since construction or since the last clear, and a record that update
\* creates starts with an empty buffer.
C9_AppendWithoutTargetIsNoOp ==
    /\ [][(lastOp'.op = "append_json_delta" /\ hist.fresh)
             => (_calls' = _calls /\ _last_tool_id' = _last_tool_id)]_vars
    /\ [](lastOp.op = "update" /\ hist.run.active
             => Info(hist.run.id)._json_buffer = <<>>)

\* a fragment was appended after clear while the id of the cleared turn was
\* still remembered, and no record exists
C9_Witness ==
    /\ lastOp.op = "append_json_delta"
    /\ lastOp.text # <<>>
    /\ hist.fresh
    /\ hist.touched # {}
    /\ _last_tool_id # None
    /\ _calls = <<>>

\* C10: a key has at most one record, a record's id is its key, and every
\* operation other than clear keeps each record at its place with its id,
\* and keeps emitted true once it is true.
C10_RecordIdentity ==
    /\ [](\A i, j \in 1..Len(_calls) : _calls[i].key = _calls[j].key => i = j)
    /\ [](\A i \in 1..Len(_calls) : _calls[i].val.id = _calls[i].key)
    /\ [][lastOp'.op # "clear"
             => /\ Len(_calls') >= Len(_calls)
                /\ \A i \in 1..Len(_calls) :
                      /\ _calls'[i].key = _calls[i].key
                      /\ _calls'[i].val.id = _calls[i].val.id
                      /\ _calls[i].val.emitted => _calls'[i].val.emitted]_vars

\* update has amended the args of the first of two records, which was
\* emitted before
C10_Witness ==
    /\ lastOp.op = "update"
    /\ lastOp.args = ArgsA
    /\ Has(lastOp.id)
    /\ Info(lastOp.id).emitted
    /\ Info(lastOp.id).args = ArgsA
    /\ Len(_calls) = 2
    /\ _calls[1].key = lastOp.id

\* reachability of the emitted case of C4: finalize_all has parsed the
\* buffer of a record that was already emitted
C4_EmittedCase ==
    /\ lastOp.op = "finalize_all"
    /\ hist.fin.active
    /\ hist.fin.args0 = NoneArgs
    /\ hist.fin.text = FragWhole
    /\ Info(hist.fin.id).emitted
    /\ Info(hist.fin.id).args = ArgsA

\* C11: the args of every record is a key-value mapping, whatever fragments
\* finalize_all has parsed.
C11_ArgsAlwaysMapping == \A info \in Records : info.args.kind = "dict"

(***************************************************************************)
(* Part 2: the classifier of tool results, ToolResultFormatter             *)
(* (src/uniquedeep/stream/formatter.py) and is_success                     *)
(* (src/uniquedeep/stream/utils.py).  A content is the sequence of its     *)
(* characters.                                                             *)
(***************************************************************************)
\* number of pieces a content handed to the classifier is made of
MaxPieces == 3

\* the characters str.strip() removes, among those of the model's alphabet
PyWhitespace == {" ", "\t", "\n", "\r"}

\* s.strip()
RECURSIVE LStripPos(_, _)
LStripPos(s, i) == IF i <= Len(s) /\ s[i] \in PyWhitespace THEN LStripPos(s, i + 1) ELSE i
RECURSIVE RStripPos(_, _)
RStripPos(s, n) == IF n >= 1 /\ s[n] \in PyWhitespace THEN RStripPos(s, n - 1) ELSE n
strip(s) == SubSeq(s, LStripPos(s, 1), RStripPos(s, Len(s)))

\* s.startswith(p), s.endswith(p), p in s
startswith(s, p) == Len(p) <= Len(s) /\ \A k \in 1..Len(p) : s[k] = p[k]
endswith(s, p) ==
    Len(p) <= Len(s) /\ \A k \in 1..Len(p) : s[Len(s) - Len(p) + k] = p[k]
contains(s, p) == \E i \in 0..(Len(s) - Len(p)) : \A k \in 1..Len(p) : s[i + k] = p[k]

\* s.find("\n", i), 0 when there is none
RECURSIVE FindNewline(_, _)
FindNewline(s, i) == IF i > Len(s) THEN 0
                     ELSE IF s[i] = "\n" THEN i ELSE FindNewline(s, i + 1)

SUCCESS_PREFIX == <<"[", "O", "K", "]">>
FAILURE_PREFIX == <<"[", "F", "A", "I", "L", "E", "D", "]">>
error_patterns ==
    {<<"T", "r", "a", "c", "e", "b", "a", "c", "k", " ", "(", "m", "o", "s", "t",
       " ", "r", "e", "c", "e", "n", "t", " ", "c", "a", "l", "l", " ", "l", "a",
       "s", "t", ")">>,
     <<"E", "x", "c", "e", "p", "t", "i", "o", "n", ":">>,
     <<"E", "r", "r", "o", "r", ":">>}
\* the character U+0060 (grave accent), which a TLA+ string cannot hold
Backtick == "<U+0060>"
md_patterns == {<<Backtick, Backtick, Backtick>>, <<"*", "*">>, <<"#", "#">>, <<"-", " ", "*", "*">>}

\* _extract_body: lines = content.split("\n", 2); lines[2].strip() if there
\* are more than two lines, "" otherwise
_extract_body(content) ==
    LET n1 == FindNewline(content, 1)
        n2 == IF n1 = 0 THEN 0 ELSE FindNewline(content, n1 + 1)
    IN  IF n2 = 0 THEN <<>> ELSE strip(SubSeq(content, n2 + 1, Len(content)))

_is_json(content) ==
    LET c == strip(content)
    IN  /\ c # <<>>
        /\ \/ startswith(c, <<"{">>) /\ endswith(c, <<"}">>)
           \/ startswith(c, <<"[">>) /\ endswith(c, <<"]">>)
        /\ json_loads(c).ok

_is_error(content) == \E p \in error_patterns : contains(content, p)

_is_markdown(content) ==
    startswith(content, <<"#">>) \/ \E p \in md_patterns : contains(content, p)

\* detect_type with the error patterns tested before the status prefixes
detect_type_errors_first(content) ==
    LET c == strip(content)
    IN  IF _is_error(c) THEN "ERROR"
        ELSE IF startswith(c, SUCCESS_PREFIX)
             THEN IF _is_json(_extract_body(c)) THEN "JSON" ELSE "SUCCESS"
        ELSE IF startswith(c, FAILURE_PREFIX) THEN "ERROR"
        ELSE IF _is_json(c) THEN "JSON"
        ELSE IF _is_markdown(c) THEN "MARKDOWN"
        ELSE "TEXT"

\* detect_type with the Markdown test before the error test
detect_type_markdown_first(content) ==
    LET c == strip(content)
    IN  IF startswith(c, SUCCESS_PREFIX)
        THEN IF _is_json(_extract_body(c)) THEN "JSON" ELSE "SUCCESS"
        ELSE IF startswith(c, FAILURE_PREFIX) THEN "ERROR"
        ELSE IF _is_json(c) THEN "JSON"
        ELSE IF _is_markdown(c) THEN "MARKDOWN"
        ELSE IF _is_error(c) THEN "ERROR"
        ELSE "TEXT"

\* ToolResultFormatter.detect_type: the name of the ContentType member
detect_type(content) ==
    LET c == strip(content)
    IN  IF startswith(c, SUCCESS_PREFIX)
        THEN IF _is_json(_extract_body(c)) THEN "JSON" ELSE "SUCCESS"
        ELSE IF startswith(c, FAILURE_PREFIX) THEN "ERROR"
        ELSE IF _is_json(c) THEN "JSON"
        ELSE IF _is_error(c) THEN "ERROR"
        ELSE IF _is_markdown(c) THEN "MARKDOWN"
        ELSE "TEXT"

\* is_success that tests the prefixes on the untrimmed content
is_success_untrimmed(content) ==
    IF startswith(content, SUCCESS_PREFIX) THEN TRUE
    ELSE IF startswith(content, FAILURE_PREFIX) THEN FALSE
    ELSE ~\E p \in error_patterns : contains(content, p)

\* is_success that looks at the status prefixes only
is_success_prefix_only(content) ==
    LET c == strip(content)
    IN  IF startswith(c, SUCCESS_PREFIX) THEN TRUE
        ELSE IF startswith(c, FAILURE_PREFIX) THEN FALSE
        ELSE TRUE

\* utils.is_success
is_success(content) ==
    LET c == strip(content)
    IN  IF startswith(c, SUCCESS_PREFIX) THEN TRUE
        ELSE IF startswith(c, FAILURE_PREFIX) THEN FALSE
        ELSE ~\E p \in error_patterns : contains(c, p)

\* ToolResultFormatter.is_success
formatter_is_success(content) == is_success(content)

\* the pieces contents are made of: the two status prefixes, line breaks, a
\* JSON object, a brace pair that does not parse, the two halves of a JSON
\* array holding one string, the three error patterns, Markdown marks and
\* plain text
Pieces ==
    {SUCCESS_PREFIX, FAILURE_PREFIX, <<"\n">>, <<"\n", "\n">>,
     <<"{", "\"", "a", "\"", ":", "1", "}">>, <<"{", "x", "}">>,
     <<"[", "\"">>, <<"\"", "]">>,
     <<"#">>, <<"*", "*">>, <<Backtick, Backtick, Backtick>>, <<"x">>}
       \cup error_patterns

RECURSIVE Concat(_)
Concat(ps) == IF ps = <<>> THEN <<>> ELSE Head(ps) \o Concat(Tail(ps))

\* every content of at most MaxPieces pieces
Contents == UNION {{Concat(ps) : ps \in [1..n -> Pieces]} : n \in 0..MaxPieces}

InitClassify ==
    /\ _calls = NewTracker.calls
    /\ _last_tool_id = NewTracker.last
    /\ lastOp = NoOp
    /\ hist = InitHist
    /\ nops = 0
    /\ strm = NoStrm
    /\ sse = NoSse
    /\ ui = NewStreamState
    /\ tool = NoTool
    /\ agent = NoAgent
    /\ \E c \in Contents : cls = [NoCls EXCEPT !.content = c, !.op = "input"]

Classified(op, content_type, success) ==
    /\ cls.op = "input"
    /\ cls' = [cls EXCEPT !.op = op, !.content_type = content_type,
                          !.success = success]
    /\ UNCHANGED <<_calls, _last_tool_id, lastOp, hist, nops, strm, sse, ui, tool, agent>>

DetectType == Classified("detect_type", detect_type(cls.content), FALSE)
IsSuccess == Classified("is_success", "none", is_success(cls.content))
FormatterIsSuccess ==
    Classified("formatter_is_success", "none", formatter_is_success(cls.content))
\* ToolResultFormatter.format: the content_type and success of its result
Format ==
    Classified("format", detect_type(cls.content), formatter_is_success(cls.content))

NextClassify == DetectType \/ IsSuccess \/ FormatterIsSuccess \/ Format

SpecClassify == InitClassify /\ [][NextClassify]_vars

(***************************************************************************)
(* Properties of the classifier.                                           *)
(***************************************************************************)
Trimmed == strip(cls.content)
TypeReturned == cls.op \in {"detect_type", "format"}
SuccessReturned == cls.op \in {"is_success", "formatter_is_success", "format"}
HasErrorPattern(c) == \E p \in error_patterns : contains(c, p)

\* C12: for content that starts with [OK] after trimming, detect_type returns
\* JSON when the body that follows the marker line is JSON-like and parses,
\* SUCCESS otherwise, for every layout of the text after the marker line.
C12_BodyAfterMarkerLine ==
    (TypeReturned /\ startswith(Trimmed, SUCCESS_PREFIX))
        => LET n1 == FindNewline(Trimmed, 1)
               rest == IF n1 = 0 THEN <<>> ELSE SubSeq(Trimmed, n1 + 1, Len(Trimmed))
           IN  cls.content_type = IF _is_json(rest) THEN "JSON" ELSE "SUCCESS"

\* C13: content that starts with [OK] is classified SUCCESS or JSON, never
\* ERROR, MARKDOWN or TEXT, also when it contains an error pattern, and
\* is_success of it is true.
C13_SuccessPrefixAuthoritative ==
    startswith(Trimmed, SUCCESS_PREFIX)
        => /\ TypeReturned => cls.content_type \in {"SUCCESS", "JSON"}
           /\ SuccessReturned => cls.success

\* an [OK] content holding an error pattern and a Markdown mark was
\* classified SUCCESS
C13_Witness ==
    /\ cls.op = "detect_type"
    /\ startswith(Trimmed, SUCCESS_PREFIX)
    /\ HasErrorPattern(Trimmed)
    /\ contains(Trimmed, <<"*", "*">>)
    /\ cls.content_type = "SUCCESS"

\* C14: for content that does not start with [OK] the first match wins, in
\* the order [FAILED] prefix (ERROR), JSON-like and parseable (JSON), error
\* pattern (ERROR), Markdown (MARKDOWN), else TEXT; empty or whitespace-only
\* content is TEXT.
C14_FirstMatchWins ==
    (TypeReturned /\ ~startswith(Trimmed, SUCCESS_PREFIX))
        => /\ cls.content_type =
                 IF startswith(Trimmed, FAILURE_PREFIX) THEN "ERROR"
                 ELSE IF _is_json(Trimmed) THEN "JSON"
                 ELSE IF HasErrorPattern(Trimmed) THEN "ERROR"
                 ELSE IF startswith(Trimmed, <<"#">>)
                         \/ \E p \in md_patterns : contains(Trimmed, p)
                      THEN "MARKDOWN"
                 ELSE "TEXT"
           /\ Trimmed = <<>> => cls.content_type = "TEXT"

\* a content that starts with '#' and holds an error pattern was classified
\* ERROR
C14_Witness ==
    /\ cls.op = "detect_type"
    /\ startswith(Trimmed, <<"#">>)
    /\ HasErrorPattern(Trimmed)
    /\ cls.content_type = "ERROR"

\* C15: is_success is true for trimmed content starting with [OK], false for
\* [FAILED], otherwise true exactly when no error pattern occurs in it; empty
\* or whitespace-only content is successful; ToolResultFormatter.is_success
\* returns the same value.
C15_IsSuccess ==
    SuccessReturned
        => /\ cls.success =
                 IF startswith(Trimmed, SUCCESS_PREFIX) THEN TRUE
                 ELSE IF startswith(Trimmed, FAILURE_PREFIX) THEN FALSE
                 ELSE ~HasErrorPattern(Trimmed)
           /\ Trimmed = <<>> => cls.success
           /\ cls.success = is_success(cls.content)

\* ToolResultFormatter.is_success found a content successful that starts
\* with a line break, then [OK], and holds an error pattern
C15_Witness ==
    /\ cls.op = "formatter_is_success"
    /\ startswith(cls.content, <<"\n">>)
    /\ startswith(Trimmed, SUCCESS_PREFIX)
    /\ HasErrorPattern(Trimmed)
    /\ cls.success

(***************************************************************************)
(* Part 3: LangChainSkillsAgent.stream_events (src/uniquedeep/agent.py),   *)
(* the generator that turns the chunks of the upstream model stream into   *)
(* events built by StreamEventEmitter (src/uniquedeep/stream/emitter.py).  *)
(* An event is the Python dict the emitter builds, as a value of kind      *)
(* "dict" whose keys and strings are character sequences.                  *)
(***************************************************************************)
\* number of chunks the upstream stream delivers in one turn
MaxChunks == 3
\* DisplayLimits.TOOL_RESULT_MAX
TOOL_RESULT_MAX == 2000

\* the characters of the strings the model names
Chars(x) ==
    CASE x = "" -> <<>>
      [] x = "type" -> <<"t", "y", "p", "e">>
      [] x = "thinking" -> <<"t", "h", "i", "n", "k", "i", "n", "g">>
      [] x = "text" -> <<"t", "e", "x", "t">>
      [] x = "tool_call" -> <<"t", "o", "o", "l", "_", "c", "a", "l", "l">>
      [] x = "tool_result" -> <<"t", "o", "o", "l", "_", "r", "e", "s", "u", "l", "t">>
      [] x = "done" -> <<"d", "o", "n", "e">>
      [] x = "error" -> <<"e", "r", "r", "o", "r">>
      [] x = "content" -> <<"c", "o", "n", "t", "e", "n", "t">>
      [] x = "name" -> <<"n", "a", "m", "e">>
      [] x = "args" -> <<"a", "r", "g", "s">>
      [] x = "id" -> <<"i", "d">>
      [] x = "success" -> <<"s", "u", "c", "c", "e", "s", "s">>
      [] x = "response" -> <<"r", "e", "s", "p", "o", "n", "s", "e">>
      [] x = "message" -> <<"m", "e", "s", "s", "a", "g", "e">>
      [] x = "agent_error" -> <<"a", "g", "e", "n", "t", "_", "e", "r", "r", "o", "r">>
      [] x = "unknown" -> <<"u", "n", "k", "n", "o", "w", "n">>
      [] x = "grep" -> <<"g", "r", "e", "p">>
      [] x = "bash" -> <<"b", "a", "s", "h">>
      [] x = "t1" -> <<"t", "1">>
      [] x = "t2" -> <<"t", "2">>
      [] x = "boom" -> <<"b", "o", "o", "m">>
      [] x = "true" -> <<"t", "r", "u", "e">>
      [] x = "false" -> <<"f", "a", "l", "s", "e">>

\* a str-or-None as a value
PyStr(x) == IF x = None THEN NoneArgs ELSE Str(Chars(x))

\* d.get(k, default) of a dict value
Get(d, k, default) ==
    IF \E p \in d.items : p[1] = Chars(k)
    THEN (CHOOSE p \in d.items : p[1] = Chars(k))[2]
    ELSE default

\* the events of StreamEventEmitter
Event(type, fields) == Dict({<<Chars("type"), Str(Chars(type))>>} \cup fields)
emit_thinking(content) ==
    Event("thinking", {<<Chars("content"), Str(content)>>, <<Chars("id"), Num(<<"0">>)>>})
emit_text(content) == Event("text", {<<Chars("content"), Str(content)>>})
emit_tool_call(name, args, tool_id) ==
    Event("tool_call", {<<Chars("name"), PyStr(name)>>, <<Chars("args"), args>>,
                        <<Chars("id"), PyStr(tool_id)>>})
emit_tool_result(name, content, success) ==
    Event("tool_result", {<<Chars("name"), PyStr(name)>>,
                          <<Chars("content"), Str(content)>>,
                          <<Chars("success"), Bool(success)>>})
emit_done(response) == Event("done", {<<Chars("response"), Str(response)>>})
emit_error(message) == Event("error", {<<Chars("message"), Str(message)>>})

\* the state a chunk is processed in: the tracker tr, the events yielded out
\* and full_response
\* yield ev.data, with the accumulation of stream_events for text events
Yield(st, ev) ==
    [st EXCEPT !.out = Append(@, ev),
               !.full_response =
                   IF Get(ev, "type", NoneArgs) = Str(Chars("text"))
                   THEN @ \o Get(ev, "content", Str(<<>>)).lit ELSE @]

\* the body shared by the tool_use / tool_call branch and _process_tool_calls:
\* update, then the announcement if the call is ready
Announce(st, tool_id, name, args) ==
    LET args_payload == IF args.kind = "dict" THEN args ELSE EmptyDict
        tr1 == update(st.tr, tool_id, name, args_payload, FALSE)
    IN  IF ~TruthyStr(tool_id) THEN st
        ELSE IF is_ready(tr1, tool_id)
             THEN Yield([st EXCEPT !.tr = mark_emitted(tr1, tool_id)],
                        emit_tool_call(name, args_payload, tool_id))
        ELSE [st EXCEPT !.tr = tr1]

\* a content block [type, id, name, args, text]: text is the thinking, the
\* text, the partial_json or the str args of the block
Blk(type, id, name, args, chars) ==
    [type |-> type, id |-> id, name |-> name, args |-> args, text |-> chars]

\* one iteration of the loop over blocks in _process_chunk_content
ProcessBlock(st, b) ==
    CASE b.type \in {"thinking", "reasoning", "text"} ->
            IF b.text = <<>> THEN st
            ELSE Yield(st, IF b.type = "text" THEN emit_text(b.text)
                                              ELSE emit_thinking(b.text))
      [] b.type \in {"tool_use", "tool_call"} -> Announce(st, b.id, b.name, b.args)
      [] b.type = "input_json_delta" ->
            IF b.text = <<>> THEN st
            ELSE [st EXCEPT !.tr = append_json_delta(@, b.text)]
      [] b.type = "tool_call_chunk" ->
            LET st1 == IF TruthyStr(b.id)
                       THEN [st EXCEPT !.tr = update(@, b.id, b.name, NoneArgs, FALSE)]
                       ELSE st
            IN  IF b.text = <<>> THEN st1
                ELSE [st1 EXCEPT !.tr = append_json_delta(@, b.text)]
      [] OTHER -> st

RECURSIVE ProcessBlocks(_, _)
ProcessBlocks(st, blocks) ==
    IF blocks = <<>> THEN st
    ELSE ProcessBlocks(ProcessBlock(st, Head(blocks)), Tail(blocks))

\* a chunk content is a str (isstr, with its text) or a list of blocks
_process_chunk_content(st, content) ==
    IF content.isstr
    THEN IF content.text = <<>> THEN st ELSE Yield(st, emit_text(content.text))
    ELSE ProcessBlocks(st, content.blocks)

RECURSIVE _process_tool_calls(_, _)
_process_tool_calls(st, tool_calls) ==
    IF tool_calls = <<>> THEN st
    ELSE _process_tool_calls(
             Announce(st, Head(tool_calls).id, Head(tool_calls).name,
                      Head(tool_calls).args),
             Tail(tool_calls))

\* "\n... (truncated)"
TruncatedMark == <<"\n", ".", ".", ".", " ", "(", "t", "r", "u", "n", "c", "a", "t", "e", "d", ")">>

\* truncation that keeps the last TOOL_RESULT_MAX characters
Truncated_tail(raw_content) ==
    IF Len(raw_content) > TOOL_RESULT_MAX
    THEN SubSeq(raw_content, Len(raw_content) - TOOL_RESULT_MAX + 1, Len(raw_content))
            \o TruncatedMark
    ELSE raw_content

\* content = raw_content[:TOOL_RESULT_MAX], plus the mark when it was longer
Truncated(raw_content) ==
    IF Len(raw_content) > TOOL_RESULT_MAX
    THEN SubSeq(raw_content, 1, TOOL_RESULT_MAX) \o TruncatedMark
    ELSE raw_content

\* the ToolCall events of the loop over tracker.get_all()
UpdateEvents(tr) ==
    [i \in 1..Len(get_all(tr)) |->
        emit_tool_call(get_all(tr)[i].name, get_all(tr)[i].args, get_all(tr)[i].id)]

\* _process_tool_result that re-sends only the calls not announced yet
_process_tool_result_pending_only(st, msg) ==
    LET tr1 == finalize_all(st.tr)
        content == Truncated(msg.content)
    IN  [st EXCEPT
           !.tr = emit_all_pending(tr1),
           !.out = (@ \o [i \in 1..Len(get_pending(tr1)) |->
                             emit_tool_call(get_pending(tr1)[i].name,
                                            get_pending(tr1)[i].args,
                                            get_pending(tr1)[i].id)])
                     \o <<emit_tool_result(msg.name, content, is_success(content))>>]

\* _process_tool_result that sends the updates before finalize_all
_process_tool_result_before_finalize(st, msg) ==
    LET content == Truncated(msg.content)
    IN  [st EXCEPT
           !.tr = finalize_all(st.tr),
           !.out = (@ \o UpdateEvents(st.tr))
                     \o <<emit_tool_result(msg.name, content, is_success(content))>>]

\* _process_tool_result for the ToolMessage msg = [name, content]
_process_tool_result(st, msg) ==
    LET tr1 == finalize_all(st.tr)
        content == Truncated(msg.content)
    IN  [st EXCEPT
           !.tr = tr1,
           !.out = (@ \o UpdateEvents(tr1))
                     \o <<emit_tool_result(msg.name, content, is_success(content))>>]

(***************************************************************************)
(* The chunks of the upstream stream.                                      *)
(***************************************************************************)
StrContent(chars) == [isstr |-> TRUE, text |-> chars, blocks |-> <<>>]
Blocks(bs) == [isstr |-> FALSE, text |-> <<>>, blocks |-> bs]
AI(content, tool_calls) == [content |-> content, tool_calls |-> tool_calls]

\* AIMessageChunks: text, thinking, a call announced by a tool_use or
\* tool_call block or by the tool_calls list, with and without a name, a
\* call begun by a tool_call_chunk, and argument fragments
AIChunks ==
    {AI(StrContent(<<"h", "i">>), <<>>),
     AI(Blocks(<<Blk("thinking", "", "", NoneArgs, <<"h", "m">>)>>), <<>>),
     AI(Blocks(<<Blk("text", "", "", NoneArgs, <<"!">>),
                 Blk("tool_call", "t2", "bash", ArgsB, <<>>)>>), <<>>),
     AI(Blocks(<<Blk("tool_use", "t1", "grep", EmptyDict, <<>>)>>), <<>>),
     AI(Blocks(<<Blk("tool_use", "t1", "", ArgsA, <<>>)>>), <<>>),
     AI(Blocks(<<Blk("tool_call_chunk", "t2", "grep", NoneArgs, <<>>)>>), <<>>),
     AI(Blocks(<<Blk("tool_call_chunk", "", None, NoneArgs, FragWhole)>>), <<>>),
     AI(Blocks(<<Blk("input_json_delta", "", "", NoneArgs, FragWhole)>>), <<>>),
     AI(Blocks(<<>>), <<[id |-> "t1", name |-> "grep", args |-> ArgsA]>>)}

\* ToolMessages: a success, a failure, a result without a prefix, and a
\* failure one character longer than TOOL_RESULT_MAX
ToolMessages ==
    {[name |-> "grep", content |-> SUCCESS_PREFIX \o <<"\n", "\n", "x">>],
     [name |-> "grep", content |-> FAILURE_PREFIX \o <<" ", "x">>],
     [name |-> "bash", content |-> <<"x">>],
     [name |-> "bash",
      content |-> [i \in 1..(TOOL_RESULT_MAX + 1) |->
                      IF i <= Len(FAILURE_PREFIX) THEN FAILURE_PREFIX[i] ELSE "x"]]}

(***************************************************************************)
(* stream_events as a state machine: one action per chunk the for loop     *)
(* receives, one for an exception of the upstream stream, one for its end. *)
(***************************************************************************)
StreamSt == [tr |-> Tracker, out |-> strm.out, full_response |-> strm.full_response]

\* the stage of id after a chunk that took the tracker to tr
NextStage(id, tr, last) ==
    LET stage == strm.stage[id]
        Buffer(calls) == IF id \in Keys(calls) THEN Lookup(calls, id)._json_buffer
                                               ELSE <<>>
    IN  IF last # "ai" THEN (IF stage = 2 THEN 3 ELSE stage)
        ELSE IF stage = 0 /\ id \notin Keys(_calls) /\ id \in Keys(tr.calls)
                /\ Lookup(tr.calls, id).name # ""
             THEN 1
        ELSE IF stage \in {1, 2} /\ Len(Buffer(tr.calls)) > Len(Buffer(_calls))
             THEN 2
        ELSE stage

InstallStream(st, last) ==
    /\ _calls' = st.tr.calls
    /\ _last_tool_id' = st.tr.last
    /\ strm' = [strm EXCEPT
                  !.out = st.out, !.full_response = st.full_response,
                  !.nchunks = @ + 1, !.last = last,
                  !.updates = [id \in DOMAIN @ |->
                                  @[id] + IF last # "ai" /\ id \in Keys(_calls)
                                          THEN 1 ELSE 0],
                  !.stage = [id \in DOMAIN @ |-> NextStage(id, st.tr, last)]]
    /\ UNCHANGED <<lastOp, hist, nops, cls, sse, ui, tool, agent>>

InitStream ==
    /\ _calls = NewTracker.calls
    /\ _last_tool_id = NewTracker.last
    /\ lastOp = NoOp
    /\ hist = InitHist
    /\ nops = 0
    /\ cls = NoCls
    /\ sse = NoSse
    /\ ui = NewStreamState
    /\ tool = NoTool
    /\ agent = NoAgent
    /\ strm = [NoStrm EXCEPT !.pc = "streaming"]

AIChunk(chunk) ==
    /\ strm.pc = "streaming"
    /\ strm.nchunks < MaxChunks
    /\ InstallStream(_process_tool_calls(_process_chunk_content(StreamSt, chunk.content),
                                         chunk.tool_calls),
                     "ai")

ToolMessage(msg) ==
    /\ strm.pc = "streaming"
    /\ strm.nchunks < MaxChunks
    /\ InstallStream(_process_tool_result(StreamSt, msg),
                     IF startswith(msg.content, FAILURE_PREFIX)
                     THEN IF Len(msg.content) > TOOL_RESULT_MAX THEN "long failure"
                                                                ELSE "failure"
                     ELSE "tool")

\* except Exception as e: yield emitter.error(str(e)).data
UpstreamRaise ==
    /\ strm.pc = "streaming"
    /\ strm' = [strm EXCEPT !.pc = "error_yielded",
                            !.out = Append(@, emit_error(Chars("boom")))]
    /\ UNCHANGED <<_calls, _last_tool_id, lastOp, hist, nops, cls, sse, ui, tool, agent>>

\* the handler that goes on to the Done event instead of raising
Reraise_swallowed ==
    /\ strm.pc = "error_yielded"
    /\ strm' = [strm EXCEPT !.pc = "done",
                            !.out = Append(@, emit_done(strm.full_response))]
    /\ UNCHANGED <<_calls, _last_tool_id, lastOp, hist, nops, cls, sse, ui, tool, agent>>

\* raise, when the generator is resumed after the Error event
Reraise ==
    /\ strm.pc = "error_yielded"
    /\ strm' = [strm EXCEPT !.pc = "raised"]
    /\ UNCHANGED <<_calls, _last_tool_id, lastOp, hist, nops, cls, sse, ui, tool, agent>>

\* the for loop ends: yield emitter.done(full_response).data
UpstreamEnd ==
    /\ strm.pc = "streaming"
    /\ strm' = [strm EXCEPT !.pc = "done",
                            !.out = Append(@, emit_done(strm.full_response))]
    /\ UNCHANGED <<_calls, _last_tool_id, lastOp, hist, nops, cls, sse, ui, tool, agent>>

NextStream ==
    \/ \E chunk \in AIChunks : AIChunk(chunk)
    \/ \E msg \in ToolMessages : ToolMessage(msg)
    \/ UpstreamRaise
    \/ Reraise
    \/ UpstreamEnd

SpecStream == InitStream /\ [][NextStream]_vars

(***************************************************************************)
(* Properties of stream_events.                                            *)
(***************************************************************************)
EvType(ev) == Get(ev, "type", NoneArgs)
IsType(ev, type) == EvType(ev) = Str(Chars(type))
CountType(type) == Cardinality({i \in DOMAIN strm.out : IsType(strm.out[i], type)})
\* number of ToolCall events yielded for the call id
ToolCallsOf(id) ==
    Cardinality({i \in DOMAIN strm.out :
                    /\ IsType(strm.out[i], "tool_call")
                    /\ Get(strm.out[i], "id", NoneArgs) = PyStr(id)})

\* C16: in a turn where a call id arrives with its name, then its argument
\* fragments, then the tool result that triggers finalization, the events
\* yielded hold exactly one ToolCall event for that id.
C16_ExactlyOneToolCall ==
    \A id \in ToolIds :
        (strm.stage[id] = 3 /\ strm.updates[id] = 1) => ToolCallsOf(id) = 1

\* C16, amended: the events yielded hold one ToolCall event for the id if it
\* was announced (its record is marked emitted) and one more for every tool
\* message handled while the id was tracked; in the turn of the claim that
\* is one or two events.
C16_AnnouncementPlusUpdates ==
    /\ \A id \in ToolIds :
          ToolCallsOf(id) = (IF Has(id) /\ Info(id).emitted THEN 1 ELSE 0)
                               + strm.updates[id]
    /\ \A id \in ToolIds :
          (strm.stage[id] = 3 /\ strm.updates[id] = 1) => ToolCallsOf(id) \in {1, 2}

\* the turn of the claim has ended with two ToolCall events for t1, the
\* second one carrying the parsed fragments
C16_Witness ==
    /\ strm.pc = "done"
    /\ strm.stage["t1"] = 3
    /\ strm.updates["t1"] = 1
    /\ ToolCallsOf("t1") = 2
    /\ Info("t1").args = ArgsA

LastEvent == strm.out[Len(strm.out)]

\* C17: if the upstream stream raises, exactly one Error event with the
\* exception message is yielded, it is the last event, no Done event is
\* yielded and the exception is raised again; if the stream ends normally,
\* exactly one Done event is yielded, last, and no Error event.
C17_TerminalEvent ==
    /\ [](strm.pc \in {"error_yielded", "raised"}
            => /\ CountType("error") = 1
               /\ LastEvent = emit_error(Chars("boom"))
               /\ CountType("done") = 0)
    /\ [](strm.pc = "done"
            => /\ CountType("done") = 1
               /\ IsType(LastEvent, "done")
               /\ CountType("error") = 0)
    /\ [](strm.pc = "streaming" => CountType("done") + CountType("error") = 0)
    /\ [][strm.pc = "error_yielded"
             => (strm'.pc = "raised" /\ strm'.out = strm.out)]_vars

\* the upstream stream raised after chunks that yielded events, and the
\* exception has reached the caller
C17_Witness ==
    /\ strm.pc = "raised"
    /\ strm.nchunks >= 2
    /\ Len(strm.out) >= 3

\* C18: a tool message whose content begins with [FAILED] yields a ToolResult
\* event with success false, also when the content is truncated, yields no
\* Error event, and leaves the generator consuming chunks.
C18_ToolFailureIsNoError ==
    [][(strm'.nchunks = strm.nchunks + 1 /\ strm'.last \in {"failure", "long failure"})
          => LET ev == strm'.out[Len(strm'.out)]
             IN  /\ IsType(ev, "tool_result")
                 /\ Get(ev, "success", NoneArgs) = Bool(FALSE)
                 /\ startswith(Get(ev, "content", NoneArgs).lit, FAILURE_PREFIX)
                 /\ strm'.last = "long failure"
                       => Len(Get(ev, "content", NoneArgs).lit)
                             = TOOL_RESULT_MAX + Len(TruncatedMark)
                 /\ \A i \in DOMAIN strm'.out : ~IsType(strm'.out[i], "error")
                 /\ strm'.pc = "streaming"]_vars

\* a truncated failure was reported with success false, a text chunk was
\* consumed after it and the turn ended with Done
C18_Witness ==
    /\ strm.pc = "done"
    /\ \E i \in DOMAIN strm.out :
          /\ IsType(strm.out[i], "tool_result")
          /\ Get(strm.out[i], "success", NoneArgs) = Bool(FALSE)
          /\ Len(Get(strm.out[i], "content", NoneArgs).lit) > TOOL_RESULT_MAX
          /\ i + 1 < Len(strm.out)
          /\ IsType(strm.out[i + 1], "text")

(***************************************************************************)
(* Part 4: the SSE bridge (src/uniquedeep/web_api.py): _to_sse_frame and   *)
(* the generator event_stream of chat_stream.  A frame is the sequence of  *)
(* its characters.                                                         *)
(***************************************************************************)
\* number of events the agent yields to the bridge
MaxEvents == 3

\* the escapes json.dumps writes inside a string (ensure_ascii=False)
RECURSIVE Escape(_)
Escape(cs) ==
    IF cs = <<>> THEN <<>>
    ELSE (CASE Head(cs) = "\"" -> <<"\\", "\"">>
            [] Head(cs) = "\\" -> <<"\\", "\\">>
            [] Head(cs) = "\n" -> <<"\\", "n">>
            [] Head(cs) = "\r" -> <<"\\", "r">>
            [] Head(cs) = "\t" -> <<"\\", "t">>
            [] OTHER -> <<Head(cs)>>) \o Escape(Tail(cs))

\* json.dumps(v) with the default separators; the members of a dict are
\* written in one fixed order (the value does not record insertion order)
RECURSIVE json_dumps(_)
RECURSIVE DumpMembers(_)
RECURSIVE DumpElements(_, _)
DumpMembers(items) ==
    LET p == CHOOSE q \in items : TRUE
    IN  IF items = {} THEN <<>>
        ELSE <<"\"">> \o Escape(p[1]) \o <<"\"", ":", " ">> \o json_dumps(p[2])
                \o (IF items = {p} THEN <<>>
                    ELSE <<",", " ">> \o DumpMembers(items \ {p}))
DumpElements(items, n) ==
    IF n >= Cardinality(items) THEN <<>>
    ELSE (IF n = 0 THEN <<>> ELSE <<",", " ">>)
            \o json_dumps((CHOOSE q \in items : q[1] = IdxKey(n))[2])
            \o DumpElements(items, n + 1)
json_dumps(v) ==
    CASE v.kind = "str" -> <<"\"">> \o Escape(v.lit) \o <<"\"">>
      [] v.kind \in {"num", "bool"} -> v.lit
      [] v.kind = "none" -> <<"n", "u", "l", "l">>
      [] v.kind = "dict" -> <<"{">> \o DumpMembers(v.items) \o <<"}">>
      [] v.kind = "list" -> <<"[">> \o DumpElements(v.items, 0) \o <<"]">>

\* _to_sse_frame that renames the type inside the payload as well
_to_sse_frame_renamed_payload(event_type, payload) ==
    LET sse_event == IF event_type = Chars("error") THEN Chars("agent_error")
                                                    ELSE event_type
        renamed == Dict({q \in payload.items : q[1] # Chars("type")}
                            \cup {<<Chars("type"), Str(sse_event)>>})
    IN  <<"e", "v", "e", "n", "t", ":", " ">> \o sse_event
           \o <<"\n", "d", "a", "t", "a", ":", " ">> \o json_dumps(renamed) \o <<"\n", "\n">>

\* _to_sse_frame: f"event: {sse_event}\ndata: {data}\n\n"
_to_sse_frame(event_type, payload) ==
    LET sse_event == IF event_type = Chars("error") THEN Chars("agent_error")
                                                    ELSE event_type
    IN  <<"e", "v", "e", "n", "t", ":", " ">> \o sse_event
           \o <<"\n", "d", "a", "t", "a", ":", " ">> \o json_dumps(payload) \o <<"\n", "\n">>

\* the events an agent yields to the bridge: one of each type of the
\* emitter, with a line break, a quote and a backslash in a text, and a
\* dict without a type
AgentEvents ==
    {emit_thinking(<<"h", "m">>),
     emit_text(<<"a", "\n", "\"", "b", "\\">>),
     emit_tool_call("grep", ArgsA, "t1"),
     emit_tool_result("grep", SUCCESS_PREFIX, TRUE),
     emit_done(<<"h", "i">>),
     emit_error(Chars("boom")),
     Dict({<<Chars("content"), List({<<IdxKey(0), NoneArgs>>, <<IdxKey(1), Bool(FALSE)>>})>>})}

\* "Failed to initialize agent: boom"
InitFailure == <<"F", "a", "i", "l", "e", "d", " ", "t", "o", " ", "i", "n", "i", "t", "i", "a", "l", "i", "z", "e", " ", "a", "g", "e", "n", "t", ":", " ", "b", "o", "o", "m">>

(***************************************************************************)
(* event_stream as a state machine.                                        *)
(***************************************************************************)
InitSse ==
    /\ _calls = NewTracker.calls
    /\ _last_tool_id = NewTracker.last
    /\ lastOp = NoOp
    /\ hist = InitHist
    /\ nops = 0
    /\ cls = NoCls
    /\ strm = NoStrm
    /\ ui = NewStreamState
    /\ tool = NoTool
    /\ agent = NoAgent
    /\ sse = [NoSse EXCEPT !.pc = "start"]

Sse(next) ==
    /\ sse' = next
    /\ UNCHANGED <<_calls, _last_tool_id, lastOp, hist, nops, cls, strm, ui, tool, agent>>

\* agent = provider() raises: one error frame, return
ProviderFails ==
    /\ sse.pc = "start"
    /\ Sse([sse EXCEPT !.pc = "closed", !.closed_by = "provider",
                       !.frames = <<_to_sse_frame(Chars("error"),
                                                  emit_error(InitFailure))>>])

ProviderReturns ==
    /\ sse.pc = "start"
    /\ Sse([sse EXCEPT !.pc = "streaming"])

\* the type of the event the iterator yielded last
LastFed == IF sse.fed = <<>> THEN NoneArgs
           ELSE Get(sse.fed[Len(sse.fed)], "type", NoneArgs)

\* one iteration of the loop over agent.stream_events; the iterator yields
\* nothing after its Error event (it raises) nor after its Done event
Forward(event) ==
    LET event_type == Get(event, "type", Str(Chars("message"))).lit
    IN  /\ sse.pc = "streaming"
        /\ Len(sse.fed) < MaxEvents
        /\ LastFed \notin {Str(Chars("error")), Str(Chars("done"))}
        /\ Sse([sse EXCEPT !.error_emitted = @ \/ event_type = Chars("error"),
                           !.frames = Append(@, _to_sse_frame(event_type, event)),
                           !.fed = Append(@, event)])

\* except Exception that writes its error frame whatever was forwarded
AgentRaises_second_frame ==
    /\ sse.pc = "streaming"
    /\ LastFed # Str(Chars("done"))
    /\ Sse([sse EXCEPT !.pc = "closed", !.closed_by = "raised",
                       !.frames = Append(@, _to_sse_frame(Chars("error"),
                                                emit_error(Chars("boom"))))])

\* the iterator raises, after its Error event or without one: except Exception
AgentRaises ==
    /\ sse.pc = "streaming"
    /\ LastFed # Str(Chars("done"))
    /\ Sse([sse EXCEPT !.pc = "closed", !.closed_by = "raised",
                       !.frames = IF sse.error_emitted THEN @
                                  ELSE Append(@, _to_sse_frame(Chars("error"),
                                                     emit_error(Chars("boom"))))])

\* the iterator is exhausted
AgentEnds ==
    /\ sse.pc = "streaming"
    /\ LastFed # Str(Chars("error"))
    /\ Sse([sse EXCEPT !.pc = "closed", !.closed_by = "ended"])

\* the client goes away while a frame of the loop is being written:
\* except GeneratorExit
ClientDisconnects ==
    /\ sse.pc = "streaming"
    /\ sse.fed # <<>>
    /\ Sse([sse EXCEPT !.pc = "closed", !.closed_by = "disconnected"])

NextSse ==
    \/ ProviderFails
    \/ ProviderReturns
    \/ \E event \in AgentEvents : Forward(event)
    \/ AgentRaises
    \/ AgentEnds
    \/ ClientDisconnects

SpecSse == InitSse /\ [][NextSse]_vars

(***************************************************************************)
(* Properties of the SSE bridge.                                           *)
(***************************************************************************)
\* frame is 'event: <name>\ndata: <json>\n\n' with no line break inside
\* <name> or <json>, <json> parses to payload and <name> is name
IsFrameOf(frame, name, payload) ==
    LET n1 == FindNewline(frame, 1)
        data == SubSeq(frame, n1 + 7, Len(frame) - 2)
    IN  /\ startswith(frame, <<"e", "v", "e", "n", "t", ":", " ">>)
        /\ n1 > 0
        /\ SubSeq(frame, 8, n1 - 1) = name
        /\ SubSeq(frame, n1, n1 + 6) = <<"\n", "d", "a", "t", "a", ":", " ">>
        /\ FindNewline(frame, n1 + 1) = Len(frame) - 1
        /\ frame[Len(frame)] = "\n"
        /\ json_loads(data).ok
        /\ json_loads(data).val = payload

\* C19: every event forwarded by the bridge becomes exactly one frame
\* 'event: <name>\ndata: <json>\n\n', in the order received, where <name> is
\* the event's type, agent_error for type error, and <json> is the event
\* unchanged.
C19_SseFraming ==
    /\ Len(sse.frames) \in {Len(sse.fed), Len(sse.fed) + 1}
    /\ Len(sse.frames) = Len(sse.fed) + 1 => sse.pc = "closed"
    /\ \A i \in DOMAIN sse.fed :
          LET type == Get(sse.fed[i], "type", NoneArgs)
          IN  type # NoneArgs
                 => IsFrameOf(sse.frames[i],
                              IF type = Str(Chars("error")) THEN Chars("agent_error")
                                                            ELSE type.lit,
                              sse.fed[i])

\* an error event was forwarded after a text event holding a line break and
\* a quote; its frame is labelled agent_error and its payload has type error
C19_Witness ==
    /\ Len(sse.fed) = 2
    /\ IsType(sse.fed[1], "text")
    /\ IsType(sse.fed[2], "error")
    /\ startswith(sse.frames[2], <<"e", "v", "e", "n", "t", ":", " ">> \o Chars("agent_error"))
    /\ contains(sse.frames[2], <<"\"", "t", "y", "p", "e", "\"", ":", " ", "\"", "e", "r", "r", "o", "r", "\"">>)

(***************************************************************************)
(* Part 5: the renderer's StreamState (src/uniquedeep/cli.py).             *)
(***************************************************************************)
\* number of events a StreamState handles
MaxHandled == 4

\* bool(v) of a value
Truthy(v) ==
    CASE v.kind = "none" -> FALSE
      [] v.kind \in {"str", "num"} -> v.lit \notin {<<>>, <<"0">>}
      [] v.kind = "bool" -> v = Bool(TRUE)
      [] OTHER -> v.items # {}

\* tc_data of a tool_call event
TcData(event) ==
    [id |-> Get(event, "id", Str(<<>>)),
     name |-> Get(event, "name", Str(Chars("unknown"))),
     args |-> Get(event, "args", EmptyDict)]

\* handle_event that appends every tool_call event
handle_event_append(state, event) ==
    LET event_type == Get(event, "type", NoneArgs)
    IN  IF event_type = Str(Chars("tool_call"))
        THEN [state EXCEPT !.is_thinking = FALSE, !.is_responding = FALSE,
                           !.is_processing = FALSE,
                           !.tool_calls = Append(@, TcData(event))]
        ELSE state

\* handle_event whose done branch appends the response to response_text
handle_event_done_appends(state, event) ==
    LET event_type == Get(event, "type", NoneArgs)
    IN  CASE event_type = Str(Chars("text")) ->
               [state EXCEPT !.is_thinking = FALSE, !.is_responding = TRUE,
                             !.is_processing = FALSE,
                             !.response_text = @ \o Get(event, "content", Str(<<>>)).lit]
          [] event_type = Str(Chars("done")) ->
               [state EXCEPT !.is_processing = FALSE,
                             !.response_text = @ \o Get(event, "response", Str(<<>>)).lit]
          [] OTHER -> state

\* StreamState.handle_event
handle_event(state, event) ==
    LET event_type == Get(event, "type", NoneArgs)
        content == Get(event, "content", Str(<<>>)).lit
        tc_data == TcData(event)
        same == {i \in DOMAIN state.tool_calls : state.tool_calls[i].id = tc_data.id}
        first == CHOOSE i \in same : \A j \in same : i <= j
    IN  CASE event_type = Str(Chars("thinking")) ->
               [state EXCEPT !.is_thinking = TRUE, !.is_responding = FALSE,
                             !.is_processing = FALSE,
                             !.thinking_text = @ \o content]
          [] event_type = Str(Chars("text")) ->
               [state EXCEPT !.is_thinking = FALSE, !.is_responding = TRUE,
                             !.is_processing = FALSE,
                             !.response_text = @ \o content]
          [] event_type = Str(Chars("tool_call")) ->
               [state EXCEPT !.is_thinking = FALSE, !.is_responding = FALSE,
                             !.is_processing = FALSE,
                             !.tool_calls =
                                 IF Truthy(tc_data.id) /\ same # {}
                                 THEN [@ EXCEPT ![first] = tc_data]
                                 ELSE Append(@, tc_data)]
          [] event_type = Str(Chars("tool_result")) ->
               [state EXCEPT !.is_processing = TRUE,
                             !.tool_results =
                                 Append(@, [name |-> Get(event, "name",
                                                         Str(Chars("unknown"))),
                                            content |-> Get(event, "content",
                                                            Str(<<>>))])]
          [] event_type = Str(Chars("done")) ->
               [state EXCEPT !.is_processing = FALSE,
                             !.response_text =
                                 IF @ = <<>> THEN Get(event, "response", Str(<<>>)).lit
                                 ELSE @]
          [] event_type = Str(Chars("error")) ->
               [state EXCEPT !.is_processing = FALSE, !.is_thinking = FALSE,
                             !.is_responding = FALSE,
                             !.response_text =
                                 (@ \o <<"\n", "\n", "[", "E", "r", "r", "o", "r", "]", " ">>)
                                    \o Get(event, "message", Str(<<"U", "n", "k", "n", "o", "w", "n", " ", "e", "r", "r", "o", "r">>)).lit]
          [] OTHER -> state

\* the events handed to the renderer: ToolCall events that repeat an id with
\* other args, with another id, with an empty id and without an id, and one
\* event of each other type
UiEvents ==
    {emit_tool_call("grep", EmptyDict, "t1"),
     emit_tool_call("grep", ArgsA, "t1"),
     emit_tool_call("bash", ArgsB, "t2"),
     emit_tool_call("grep", ArgsA, ""),
     Event("tool_call", {}),
     emit_thinking(<<"h", "m">>),
     emit_text(<<"h", "i">>),
     emit_tool_result("grep", SUCCESS_PREFIX, TRUE),
     emit_done(<<"o", "k">>),
     emit_error(Chars("boom"))}

InitUi ==
    /\ _calls = NewTracker.calls
    /\ _last_tool_id = NewTracker.last
    /\ lastOp = NoOp
    /\ hist = InitHist
    /\ nops = 0
    /\ cls = NoCls
    /\ strm = NoStrm
    /\ sse = NoSse
    /\ ui = NewStreamState
    /\ tool = NoTool
    /\ agent = NoAgent

HandleEvent(event) ==
    /\ ui.n < MaxHandled
    /\ ui' = [handle_event(ui, event) EXCEPT !.n = @ + 1, !.last = event]
    /\ UNCHANGED <<_calls, _last_tool_id, lastOp, hist, nops, cls, strm, sse, tool, agent>>

NextUi == \E event \in UiEvents : HandleEvent(event)

SpecUi == InitUi /\ [][NextUi]_vars

(***************************************************************************)
(* Properties of StreamState.                                              *)
(***************************************************************************)
\* C20: tool_calls holds at most one entry per non-empty id; a ToolCall event
\* whose id is present replaces that entry in place, with the name and args
\* of the event, and changes nothing else of the list; a ToolCall event with
\* a new id is appended at the end.
C20_DeduplicationById ==
    /\ [](\A i, j \in DOMAIN ui.tool_calls :
             (i # j /\ ui.tool_calls[i].id = ui.tool_calls[j].id)
                => ui.tool_calls[i].id \in {Str(<<>>), NoneArgs})
    /\ [][(ui'.n = ui.n + 1 /\ IsType(ui'.last, "tool_call")
              /\ Get(ui'.last, "id", Str(<<>>)) \notin {Str(<<>>), NoneArgs})
            => LET id == Get(ui'.last, "id", Str(<<>>))
                   new == [id |-> id, name |-> Get(ui'.last, "name", NoneArgs),
                           args |-> Get(ui'.last, "args", NoneArgs)]
               IN  IF \E i \in DOMAIN ui.tool_calls : ui.tool_calls[i].id = id
                   THEN /\ Len(ui'.tool_calls) = Len(ui.tool_calls)
                        /\ \A i \in DOMAIN ui.tool_calls :
                              ui'.tool_calls[i] = IF ui.tool_calls[i].id = id
                                                  THEN new ELSE ui.tool_calls[i]
                   ELSE ui'.tool_calls = Append(ui.tool_calls, new)]_vars

\* the entry of t1 was replaced in place by an event with other args after
\* an entry of t2 had been appended behind it
C20_Witness ==
    /\ Len(ui.tool_calls) = 2
    /\ ui.tool_calls[1] = [id |-> Str(Chars("t1")), name |-> Str(Chars("grep")),
                           args |-> ArgsA]
    /\ ui.tool_calls[2].id = Str(Chars("t2"))
    /\ ui.last = emit_tool_call("grep", ArgsA, "t1")
    /\ ui.n = 3

(***************************************************************************)
(* Further properties of the classifier.                                   *)
(***************************************************************************)
(***************************************************************************)
(* Part 6: the built-in tools bash, load_skill, read_file and write_file   *)
(* (src/uniquedeep/tools.py).  A tool returns the text of its result.      *)
(***************************************************************************)
\* number of tool runs of a behaviour
MaxRuns == 2

\* s.rstrip()
rstrip(s) == SubSeq(s, 1, RStripPos(s, Len(s)))

\* sep.join(parts)
RECURSIVE join(_, _)
join(sep, parts) ==
    IF parts = <<>> THEN <<>>
    ELSE IF Len(parts) = 1 THEN parts[1]
    ELSE (parts[1] \o sep) \o join(sep, Tail(parts))

\* str(n) of an int
str_int(n) == IF n < 0 THEN <<"-">> \o IdxKey(0 - n) ELSE IdxKey(n)

\* what subprocess.run did: outcome "ran" with the returncode, stdout and
\* stderr of the command, "timeout" for TimeoutExpired, "exception" for any
\* other exception, message being str(e)
Run(outcome, returncode, stdout, stderr, message) ==
    [outcome |-> outcome, returncode |-> returncode, stdout |-> stdout,
     stderr |-> stderr, message |-> message]


\* the literal texts of the tools; PathInfo is path_info for the skill
\* directory /s
Text(x) ==
    CASE x = "BashTimedOut" ->
           <<"[", "F", "A", "I", "L", "E", "D", "]", " ", "C", "o", "m", "m", "a",
             "n", "d", " ", "t", "i", "m", "e", "d", " ", "o", "u", "t", " ", "a",
             "f", "t", "e", "r", " ", "3", "0", "0", " ", "s", "e", "c", "o", "n",
             "d", "s", ".">>
      [] x = "ExitCode" ->
           <<" ", "E", "x", "i", "t", " ", "c", "o", "d", "e", ":", " ">>
      [] x = "StderrMark" ->
           <<"-", "-", "-", " ", "s", "t", "d", "e", "r", "r", " ", "-", "-", "-">>
      [] x = "NoOutput" ->
           <<"(", "n", "o", " ", "o", "u", "t", "p", "u", "t", ")">>
      [] x = "SkillPrefix" ->
           <<"S", "k", "i", "l", "l", " ", "'">>
      [] x = "NotFoundAvailable" ->
           <<"'", " ", "n", "o", "t", " ", "f", "o", "u", "n", "d", ".", " ", "A",
             "v", "a", "i", "l", "a", "b", "l", "e", " ", "s", "k", "i", "l", "l",
             "s", ":", " ">>
      [] x = "NotFoundNone" ->
           <<"'", " ", "n", "o", "t", " ", "f", "o", "u", "n", "d", ".", " ", "N",
             "o", " ", "s", "k", "i", "l", "l", "s", " ", "a", "r", "e", " ", "c",
             "u", "r", "r", "e", "n", "t", "l", "y", " ", "a", "v", "a", "i", "l",
             "a", "b", "l", "e", ".">>
      [] x = "SkillHeader" ->
           <<"#", " ", "S", "k", "i", "l", "l", ":", " ">>
      [] x = "Instructions" ->
           <<"\n", "\n", "#", "#", " ", "I", "n", "s", "t", "r", "u", "c", "t", "i",
             "o", "n", "s", "\n", "\n">>
      [] x = "PathInfo" ->
           <<"\n", "#", "#", " ", "S", "k", "i", "l", "l", " ", "P", "a", "t", "h",
             " ", "I", "n", "f", "o", "\n", "\n", "-", " ", "*", "*", "S", "k", "i",
             "l", "l", " ", "D", "i", "r", "e", "c", "t", "o", "r", "y", "*", "*",
             ":", " ", Backtick, "/", "s", Backtick, "\n", "-", " ", "*", "*", "S",
             "c", "r", "i", "p", "t", "s", " ", "D", "i", "r", "e", "c", "t", "o",
             "r", "y", "*", "*", ":", " ", Backtick, "/", "s", "/", "s", "c", "r",
             "i", "p", "t", "s", Backtick, "\n", "\n", "*", "*", "I", "m", "p", "o",
             "r", "t", "a", "n", "t", "*", "*", ":", " ", "W", "h", "e", "n", " ",
             "r", "u", "n", "n", "i", "n", "g", " ", "s", "c", "r", "i", "p", "t",
             "s", ",", " ", "u", "s", "e", " ", "a", "b", "s", "o", "l", "u", "t",
             "e", " ", "p", "a", "t", "h", "s", " ", "l", "i", "k", "e", ":", "\n",
             Backtick, Backtick, Backtick, "b", "a", "s", "h", "\n", "u", "v", " ",
             "r", "u", "n", " ", "/", "s", "/", "s", "c", "r", "i", "p", "t", "s",
             "/", "s", "c", "r", "i", "p", "t", "_", "n", "a", "m", "e", ".", "p",
             "y", " ", "[", "a", "r", "g", "s", "]", "\n", Backtick, Backtick,
             Backtick, "\n">>
      [] x = "FileNotFound" ->
           <<"[", "E", "r", "r", "o", "r", "]", " ", "F", "i", "l", "e", " ", "n",
             "o", "t", " ", "f", "o", "u", "n", "d", ":", " ">>
      [] x = "NotAFile" ->
           <<"[", "E", "r", "r", "o", "r", "]", " ", "N", "o", "t", " ", "a", " ",
             "f", "i", "l", "e", ":", " ">>
      [] x = "CannotRead" ->
           <<"[", "E", "r", "r", "o", "r", "]", " ", "C", "a", "n", "n", "o", "t",
             " ", "r", "e", "a", "d", " ", "f", "i", "l", "e", " ", "(", "b", "i",
             "n", "a", "r", "y", " ", "o", "r", " ", "u", "n", "k", "n", "o", "w",
             "n", " ", "e", "n", "c", "o", "d", "i", "n", "g", ")", ":", " ">>
      [] x = "FailedToRead" ->
           <<"[", "E", "r", "r", "o", "r", "]", " ", "F", "a", "i", "l", "e", "d",
             " ", "t", "o", " ", "r", "e", "a", "d", " ", "f", "i", "l", "e", ":",
             " ">>
      [] x = "FileWritten" ->
           <<"[", "S", "u", "c", "c", "e", "s", "s", "]", " ", "F", "i", "l", "e",
             " ", "w", "r", "i", "t", "t", "e", "n", ":", " ">>
      [] x = "FailedToWrite" ->
           <<"[", "E", "r", "r", "o", "r", "]", " ", "F", "a", "i", "l", "e", "d",
             " ", "t", "o", " ", "w", "r", "i", "t", "e", " ", "f", "i", "l", "e",
             ":", " ">>

\* bash that reports a command that wrote to stderr as failed
bash_stderr_fails(run) ==
    LET status == IF run.returncode = 0 /\ run.stderr = <<>> THEN SUCCESS_PREFIX
                  ELSE (FAILURE_PREFIX \o Text("ExitCode")) \o str_int(run.returncode)
        out == IF run.stdout # <<>> THEN <<rstrip(run.stdout)>> ELSE <<>>
        err == IF run.stderr # <<>>
               THEN (IF run.stdout # <<>> THEN <<(<<>>)>> ELSE <<>>)
                       \o <<Text("StderrMark"), rstrip(run.stderr)>>
               ELSE <<>>
        none == IF run.stdout = <<>> /\ run.stderr = <<>> THEN <<Text("NoOutput")>> ELSE <<>>
    IN  CASE run.outcome = "timeout" -> Text("BashTimedOut")
          [] run.outcome = "exception" -> (FAILURE_PREFIX \o <<" ">>) \o run.message
          [] OTHER -> join(<<"\n">>, ((<<status, <<>>>> \o out) \o err) \o none)

\* the tool bash
bash(run) ==
    LET status == IF run.returncode = 0 THEN SUCCESS_PREFIX
                  ELSE (FAILURE_PREFIX \o Text("ExitCode")) \o str_int(run.returncode)
        out == IF run.stdout # <<>> THEN <<rstrip(run.stdout)>> ELSE <<>>
        err == IF run.stderr # <<>>
               THEN (IF run.stdout # <<>> THEN <<(<<>>)>> ELSE <<>>)
                       \o <<Text("StderrMark"), rstrip(run.stderr)>>
               ELSE <<>>
        none == IF run.stdout = <<>> /\ run.stderr = <<>> THEN <<Text("NoOutput")>> ELSE <<>>
    IN  CASE run.outcome = "timeout" -> Text("BashTimedOut")
          [] run.outcome = "exception" -> (FAILURE_PREFIX \o <<" ">>) \o run.message
          [] OTHER -> join(<<"\n">>, ((<<status, <<>>>> \o out) \o err) \o none)


\* the tool load_skill: found is whether loader.load_skill returned a
\* content, instructions its instructions, available the names of the
\* skills scan_skills finds
load_skill(skill_name, found, instructions, available) ==
    IF ~found
    THEN IF available # <<>>
         THEN ((Text("SkillPrefix") \o skill_name) \o Text("NotFoundAvailable"))
                 \o join(<<",", " ">>, available)
         ELSE (Text("SkillPrefix") \o skill_name) \o Text("NotFoundNone")
    ELSE (((((Text("SkillHeader") \o skill_name) \o Text("Instructions")) \o instructions)
             \o <<"\n">>) \o Text("PathInfo")) \o <<"\n">>

READ_LINES_MAX == 2000

\* the tool read_file: state is what the path is ("missing", "directory",
\* "text", "binary", or "unreadable" when reading raises message)
read_file(file_path, state, content, message) ==
    LET RECURSIVE split(_)
        \* s.split("\n")
        split(s) ==
            LET k == FindNewline(s, 1)
            IN  IF k = 0 THEN <<s>>
                ELSE <<SubSeq(s, 1, k - 1)>> \o split(SubSeq(s, k + 1, Len(s)))
        \* f"{i:4d}| {line}"
        Numbered(i, line) ==
            LET digits == str_int(i)
            IN  (([k \in 1..(IF Len(digits) < 4 THEN 4 - Len(digits) ELSE 0) |-> " "]
                    \o digits) \o <<"|", " ">>) \o line
        lines == split(content)
        shown == IF Len(lines) > READ_LINES_MAX THEN READ_LINES_MAX ELSE Len(lines)
        more == IF Len(lines) > READ_LINES_MAX
                THEN <<((<<".", ".", ".", " ", "(">> \o str_int(Len(lines) - READ_LINES_MAX))
                          \o <<" ", "m", "o", "r", "e", " ", "l", "i", "n", "e", "s", ")">>)>>
                ELSE <<>>
    IN  CASE state = "missing" -> Text("FileNotFound") \o file_path
          [] state = "directory" -> Text("NotAFile") \o file_path
          [] state = "binary" -> Text("CannotRead") \o file_path
          [] state = "unreadable" -> Text("FailedToRead") \o message
          [] OTHER -> join(<<"\n">>, [i \in 1..shown |-> Numbered(i, lines[i])] \o more)

\* the tool write_file: written is whether mkdir and write_text went through
write_file(path, written, message) ==
    IF written THEN Text("FileWritten") \o path ELSE Text("FailedToWrite") \o message

(***************************************************************************)
(* The tools as a state machine: one action per tool, for every outcome   *)
(* of what the tool does on the machine.                                   *)
(***************************************************************************)
\* what the tools meet: the exit codes, outputs and error outputs of
\* commands, str(e) of the exceptions raised, the names of skills and the
\* texts of files
ToolInputs ==
    [returncodes |-> {0, 1, 2, 127, 0 - 9},
     stdouts |-> {<<>>, <<"x", "\n">>, <<"E", "r", "r", "o", "r", ":", " ", "x">>,
                  FAILURE_PREFIX},
     stderrs |-> {<<>>, <<"w", "\n">>, <<"E", "r", "r", "o", "r", ":">>},
     messages |-> {<<>>, <<"b", "o", "o", "m">>},
     skill_names |-> {<<"p", "d", "f">>, <<"x">>},
     texts |-> {<<>>, <<"a", "\n", "b">>}]
Runs ==
    {Run("ran", rc, out, err, <<>>) :
        rc \in ToolInputs.returncodes, out \in ToolInputs.stdouts,
        err \in ToolInputs.stderrs}
       \cup {Run("timeout", 0, <<>>, <<>>, <<>>)}
       \cup {Run("exception", 0, <<>>, <<>>, m) : m \in ToolInputs.messages}

InitTools ==
    /\ _calls = NewTracker.calls
    /\ _last_tool_id = NewTracker.last
    /\ lastOp = NoOp
    /\ hist = InitHist
    /\ nops = 0
    /\ cls = NoCls
    /\ strm = NoStrm
    /\ sse = NoSse
    /\ ui = NewStreamState
    /\ agent = NoAgent
    /\ tool = NoTool

Returned(name, ran, returncode, failed, result) ==
    /\ tool.n < MaxRuns
    /\ tool' = [name |-> name, ran |-> ran, returncode |-> returncode,
                failed |-> failed, result |-> result, n |-> tool.n + 1]
    /\ UNCHANGED <<_calls, _last_tool_id, lastOp, hist, nops, cls, strm, sse, ui, agent>>

Bash(run) ==
    Returned("bash", run.outcome = "ran", run.returncode,
             run.outcome # "ran" \/ run.returncode # 0, bash(run))

LoadSkill(skill_name, found, instructions, available) ==
    Returned("load_skill", FALSE, 0, ~found,
             load_skill(skill_name, found, instructions, available))

ReadFile(state, content, message) ==
    Returned("read_file", FALSE, 0, state # "text",
             read_file(<<"f">>, state, content, message))

WriteFile(written, message) ==
    Returned("write_file", FALSE, 0, ~written, write_file(<<"/", "f">>, written, message))

NextTools ==
    \/ \E run \in Runs : Bash(run)
    \/ \E skill_name \in ToolInputs.skill_names, available \in {<<>>, <<<<"p", "d", "f">>, <<"x">>>>} :
          LoadSkill(skill_name, FALSE, <<>>, available)
    \/ \E skill_name \in ToolInputs.skill_names, instructions \in ToolInputs.texts :
          LoadSkill(skill_name, TRUE, instructions, <<skill_name>>)
    \/ \E state \in {"missing", "directory", "binary"} : ReadFile(state, <<>>, <<>>)
    \/ \E message \in ToolInputs.messages : ReadFile("unreadable", <<>>, message)
    \/ \E content \in ToolInputs.texts : ReadFile("text", content, <<>>)
    \/ \E message \in ToolInputs.messages : WriteFile(FALSE, message)
    \/ WriteFile(TRUE, <<>>)

SpecTools == InitTools /\ [][NextTools]_vars

(***************************************************************************)
(* Properties of the tools.                                                *)
(***************************************************************************)
\* C22: the result of bash begins with [OK] exactly when the command ran
\* and exited with code 0, also when it wrote to stderr or produced no
\* output, and with [FAILED] for a non-zero exit code, a timeout or an
\* exception; is_success of it is true iff the exit code was 0, and
\* detect_type of it is ERROR for every non-zero exit.
C22_BashPrefixConvention ==
    tool.name = "bash"
        => LET ok == tool.ran /\ tool.returncode = 0
           IN  /\ startswith(tool.result, SUCCESS_PREFIX) <=> ok
               /\ ~ok => startswith(tool.result, FAILURE_PREFIX)
               /\ is_success(tool.result) <=> ok
               /\ (tool.ran /\ tool.returncode # 0) => detect_type(tool.result) = "ERROR"
               /\ ~ok => detect_type(tool.result) = "ERROR"

\* a command exited with code 0 after writing an error pattern to stderr
\* and nothing to stdout
C22_Witness ==
    /\ tool.name = "bash"
    /\ tool.ran
    /\ tool.returncode = 0
    /\ contains(tool.result, Text("StderrMark") \o <<"\n", "E", "r", "r", "o", "r", ":">>)
    /\ ~contains(tool.result, <<"\n", "\n", "\n">>)
    /\ is_success(tool.result)

\* C27: every failure result returned by a built-in tool is judged
\* not-successful by is_success, those of load_skill, read_file and
\* write_file included.
C27_FailuresAreNotSuccesses == tool.failed => ~is_success(tool.result)

(***************************************************************************)
(* Part 7: the configuration of LangChainSkillsAgent                       *)
(* (src/uniquedeep/agent.py): __init__, _create_agent, set_temperature and *)
(* switch_model.  A model name is the sequence of its characters; a        *)
(* temperature is counted in tenths.                                       *)
(***************************************************************************)
\* number of calls of set_temperature and switch_model
MaxCalls == 2

\* DEFAULT_TEMPERATURE = 1.0
DEFAULT_TEMPERATURE == 10

\* word in model_name.lower()
mentions(model_name, word) ==
    LET lower(c) == CASE c = "C" -> "c" [] c = "B" -> "b" [] OTHER -> c
    IN  contains([i \in 1..Len(model_name) |-> lower(model_name[i])], word)

is_anthropic(provider, model_name) ==
    provider = "anthropic" \/ mentions(model_name, <<"c", "l", "a", "u", "d", "e">>)

\* the environment of the process: config is what get_model_config returns,
\* api_keys and base_urls the <PROVIDER>_API_KEY and <PROVIDER>_BASE_URL
\* variables, no_thinking whether NO_THINKING is "true", default_temperature
\* float(DEFAULT_TEMPERATURE), 1.0 when it is not set
AgentInputs ==
  [envs |->
    {[config |-> [provider |-> p, model_name |-> m, api_key |-> k, base_url |-> None],
      api_keys |-> [q \in {"anthropic", "deepseek", "openai"} |->
                       IF q = "openai" THEN None ELSE "key of " \o q],
      base_urls |-> [q \in {"anthropic", "deepseek", "openai"} |-> None],
      no_thinking |-> nt, default_temperature |-> dt] :
        <<p, m, k>> \in {<<"anthropic", <<"c", "l", "a", "u", "d", "e", "-", "a">>, "key of anthropic">>,
                          <<"deepseek", <<"d", "e", "e", "p", "s", "e", "e", "k", "-", "r", "e", "a", "s", "o", "n", "e", "r">>, "key of deepseek">>},
        nt \in BOOLEAN, dt \in {DEFAULT_TEMPERATURE, 7}},
   \* the model names and temperatures the methods are called with
   model_names |->
    {<<"C", "l", "a", "u", "d", "e", "-", "B">>,
     <<"d", "e", "e", "p", "s", "e", "e", "k", "-", "c", "h", "a", "t">>,
     <<"g", "p", "t", "-", "4", "o">>,
     <<"q", "w", "e", "n">>},
   temperatures |-> {0, 7}]

\* _create_agent: the arguments init_chat_model is called with
_create_agent(a) ==
    [model |-> a.model_name, temperature |-> a.temperature,
     model_provider |-> a.provider, api_key |-> a.api_key,
     base_url |-> a.base_url,
     thinking |-> a.enable_thinking /\ a.provider = "anthropic"]

\* LangChainSkillsAgent(model, temperature=temperature,
\* enable_thinking=enable_thinking) in the environment env; temperature is
\* <<>> for None and <<t>> for the float t
NewAgent(model, temperature, enable_thinking, env) ==
    LET model_name == IF model \notin {None, <<>>} THEN model ELSE env.config.model_name
        a == [NoAgent EXCEPT
                 !.op = "__init__", !.env = env,
                 !.enable_thinking = enable_thinking,
                 !.api_key = env.config.api_key, !.base_url = env.config.base_url,
                 !.model_name = model_name, !.provider = env.config.provider,
                 !.temperature =
                     IF enable_thinking /\ is_anthropic(env.config.provider, model_name)
                     THEN 10
                     ELSE IF temperature \notin {<<>>, <<0>>} THEN temperature[1]
                     ELSE env.default_temperature]
    IN  [a EXCEPT !.agent = _create_agent(a)]

\* set_temperature(temperature); builds is whether _create_agent returns
\* (it raises otherwise, and so does set_temperature)
set_temperature(a, temperature, builds) ==
    IF a.enable_thinking /\ is_anthropic(a.provider, a.model_name)
    THEN [a EXCEPT !.ret = "False"]
    ELSE LET a1 == [a EXCEPT !.temperature = temperature]
         IN  IF builds THEN [a1 EXCEPT !.agent = _create_agent(a1), !.ret = "True"]
             ELSE [a1 EXCEPT !.ret = "raised"]

\* switch_model(model_name, provider); builds is whether _create_agent
\* returns
switch_model(a, model_name, provider, builds) ==
    LET provider1 == IF provider \notin {None, ""} THEN provider
                     ELSE IF mentions(model_name, <<"c", "l", "a", "u", "d", "e">>) THEN "anthropic"
                     ELSE IF mentions(model_name, <<"d", "e", "e", "p", "s", "e", "e", "k">>) THEN "deepseek"
                     ELSE IF mentions(model_name, <<"g", "p", "t">>) \/ mentions(model_name, <<"o", "1", "-">>)
                          THEN "openai"
                     ELSE a.provider
        new_key == a.env.api_keys[provider1]
        new_base_url == IF provider1 = "deepseek" /\ a.env.base_urls[provider1] = None
                        THEN "https://api.deepseek.com"
                        ELSE a.env.base_urls[provider1]
        anthropic == is_anthropic(provider1, model_name)
        default_enable_thinking == ~a.env.no_thinking
        a1 == [a EXCEPT
                 !.model_name = model_name, !.provider = provider1,
                 !.api_key = IF new_key # None THEN new_key ELSE @,
                 !.base_url = IF new_base_url # None THEN new_base_url ELSE @,
                 !.enable_thinking = IF anthropic
                                     THEN (IF default_enable_thinking THEN TRUE ELSE @)
                                     ELSE FALSE,
                 !.temperature = IF anthropic /\ default_enable_thinking THEN 10
                                 ELSE a.env.default_temperature]
    IN  IF builds THEN [a1 EXCEPT !.agent = _create_agent(a1), !.ret = "True"]
        ELSE [a1 EXCEPT !.ret = "False"]

(***************************************************************************)
(* The agent as a state machine: the constructor, then calls of            *)
(* set_temperature and switch_model.                                       *)
(***************************************************************************)
InitAgent ==
    /\ _calls = NewTracker.calls
    /\ _last_tool_id = NewTracker.last
    /\ lastOp = NoOp
    /\ hist = InitHist
    /\ nops = 0
    /\ cls = NoCls
    /\ strm = NoStrm
    /\ sse = NoSse
    /\ ui = NewStreamState
    /\ tool = NoTool
    /\ \E env \in AgentInputs.envs, temperature \in {<<>>, <<3>>}, enable_thinking \in BOOLEAN :
          agent = NewAgent(None, temperature, enable_thinking, env)

SetTemperature(temperature, builds) ==
    /\ agent.n < MaxCalls
    /\ agent' = [set_temperature(agent, temperature, builds) EXCEPT
                    !.op = "set_temperature", !.arg = temperature, !.n = agent.n + 1]
    /\ UNCHANGED <<_calls, _last_tool_id, lastOp, hist, nops, cls, strm, sse, ui, tool>>

SwitchModel(model_name, provider, builds) ==
    /\ agent.n < MaxCalls
    /\ agent' = [switch_model(agent, model_name, provider, builds) EXCEPT
                    !.op = "switch_model", !.arg = 0, !.n = agent.n + 1]
    /\ UNCHANGED <<_calls, _last_tool_id, lastOp, hist, nops, cls, strm, sse, ui, tool>>

NextAgent ==
    \/ \E temperature \in AgentInputs.temperatures, builds \in BOOLEAN :
          SetTemperature(temperature, builds)
    \/ \E model_name \in AgentInputs.model_names, provider \in {None, "openai"}, builds \in BOOLEAN :
          SwitchModel(model_name, provider, builds)

SpecAgent == InitAgent /\ [][NextAgent]_vars

(***************************************************************************)
(* Properties of the agent's configuration.                                *)
(***************************************************************************)
ThinkingForced == agent.enable_thinking /\ is_anthropic(agent.provider, agent.model_name)

\* C23: after construction and after any calls of set_temperature and
\* switch_model, temperature is 1.0 whenever enable_thinking is true and the
\* model is an Anthropic/Claude one; in that state set_temperature returns
\* False and changes neither temperature nor the agent; in every other
\* state it stores the value, rebuilds the agent and returns True.
C23_ThinkingForcesTemperature ==
    /\ []((agent.op # "none" /\ ThinkingForced) => agent.temperature = 10)
    /\ [][(agent'.op = "set_temperature" /\ agent'.n = agent.n + 1 /\ ThinkingForced)
             => /\ agent'.ret = "False"
                /\ agent'.temperature = agent.temperature
                /\ agent'.agent = agent.agent]_vars
    /\ [][(agent'.op = "set_temperature" /\ agent'.n = agent.n + 1 /\ ~ThinkingForced
              /\ agent'.ret # "raised")
             => /\ agent'.ret = "True"
                /\ agent'.temperature = agent'.arg
                /\ agent'.agent.temperature = agent'.arg]_vars

\* the configuration but for the history of the calls
Configuration ==
    <<agent.model_name, agent.provider, agent.api_key, agent.base_url,
      agent.temperature, agent.enable_thinking, agent.agent>>

\* C30: when switch_model returns False because rebuilding the agent
\* raised, model_name, provider, api_key, base_url, temperature,
\* enable_thinking and the active agent are what they were before the call.
C30_FailedSwitchChangesNothing ==
    [][(agent'.op = "switch_model" /\ agent'.n = agent.n + 1 /\ agent'.ret = "False")
          => Configuration' = Configuration]_vars

\* C29: the result of ToolResultFormatter.format has content_type ERROR
\* exactly when its success is false.
C29_TypeAndSuccessAgree ==
    cls.op = "format" => (cls.content_type = "ERROR" <=> ~cls.success)

\* C29, amended: content_type ERROR implies success false; success false
\* implies content_type ERROR or JSON, and JSON only for content without the
\* [OK] prefix that parses as JSON and holds an error pattern.
C29_ErrorImpliesFailure ==
    cls.op = "format"
        => /\ cls.content_type = "ERROR" => ~cls.success
           /\ ~cls.success => cls.content_type \in {"ERROR", "JSON"}
           /\ (~cls.success /\ cls.content_type = "JSON")
                 => /\ ~startswith(Trimmed, SUCCESS_PREFIX)
                    /\ _is_json(Trimmed)
                    /\ HasErrorPattern(Trimmed)

\* format returned JSON together with success false
C29_Witness ==
    /\ cls.op = "format"
    /\ cls.content_type = "JSON"
    /\ ~cls.success

(***************************************************************************)
(* Further properties of stream_events.                                    *)
(***************************************************************************)
\* C24: a chunk that first makes a call id known together with a non-empty
\* name, through a tool_use or tool_call block, a tool_call_chunk block or
\* the tool_calls list, yields a ToolCall event for that id while that same
\* chunk is processed.
C24_ImmediateAnnouncement ==
    [][\A id \in ToolIds :
          (strm.stage[id] = 0 /\ strm'.stage[id] = 1)
             => \E i \in (Len(strm.out) + 1)..Len(strm'.out) :
                   /\ IsType(strm'.out[i], "tool_call")
                   /\ Get(strm'.out[i], "id", NoneArgs) = PyStr(id)]_vars

\* C28: every ToolCall event yielded carries a non-empty tool name and a
\* non-empty id, the update events sent at a tool result included.
C28_ToolCallNamed ==
    \A i \in DOMAIN strm.out :
        IsType(strm.out[i], "tool_call")
            => /\ Get(strm.out[i], "name", NoneArgs) \notin {NoneArgs, Str(<<>>)}
               /\ Get(strm.out[i], "id", NoneArgs) \notin {NoneArgs, Str(<<>>)}

(***************************************************************************)
(* stream_events consumed by the renderer: the loop                        *)
(* for event in agent.stream_events(...): state.handle_event(event).       *)
(***************************************************************************)
RECURSIVE HandleAll(_, _)
HandleAll(state, events) ==
    IF events = <<>> THEN state
    ELSE HandleAll(handle_event(state, Head(events)), Tail(events))

\* C25: the ToolResult event of a tool message is preceded, in the handling
\* of that message, by finalize_all and by one ToolCall event per tracked
\* call carrying its id and its finalized args; every tracked record then
\* has args_complete true, and a renderer that replaces entries by id shows
\* those args for each call before it records the result.
C25_FinalizedArgsPrecedeResult ==
    [][(strm'.nchunks = strm.nchunks + 1 /\ strm'.last # "ai")
          => LET k == Len(strm.out)
                 n == Len(_calls')
                 shown == HandleAll(NewStreamState, SubSeq(strm'.out, 1, k + n))
             IN  /\ Len(strm'.out) = k + n + 1
                 /\ SubSeq(strm'.out, 1, k) = strm.out
                 /\ IsType(strm'.out[k + n + 1], "tool_result")
                 /\ Keys(_calls') = Keys(_calls)
                 /\ \A i \in 1..n :
                       LET rec == _calls'[i].val
                           old == _calls[i].val
                       IN  /\ rec.args_complete
                           /\ rec._json_buffer = <<>>
                           /\ old._json_buffer = <<>> => rec.args = old.args
                           /\ (/\ old._json_buffer # <<>>
                               /\ json_loads(old._json_buffer).ok
                               /\ json_loads(old._json_buffer).val.kind = "dict")
                                 => rec.args = json_loads(old._json_buffer).val
                           /\ IsType(strm'.out[k + i], "tool_call")
                           /\ Get(strm'.out[k + i], "id", NoneArgs) = PyStr(rec.id)
                           /\ Get(strm'.out[k + i], "args", NoneArgs) = rec.args
                           /\ \E j \in DOMAIN shown.tool_calls :
                                 /\ shown.tool_calls[j].id = PyStr(rec.id)
                                 /\ shown.tool_calls[j].args = rec.args
                 /\ Len(shown.tool_results)
                       = Len(HandleAll(NewStreamState, strm.out).tool_results)
                 /\ Len(HandleAll(NewStreamState, strm'.out).tool_results)
                       = Len(shown.tool_results) + 1]_vars

\* a tool message arrived for a call announced with its name whose args
\* came as fragments: the update event before the result carries the args
\* parsed from them
C25_Witness ==
    /\ strm.last \notin {"ai", "none"}
    /\ strm.pc = "streaming"
    /\ Len(strm.out) >= 2
    /\ IsType(strm.out[Len(strm.out)], "tool_result")
    /\ IsType(strm.out[Len(strm.out) - 1], "tool_call")
    /\ \E id \in ToolIds :
          /\ strm.stage[id] = 3
          /\ Has(id)
          /\ Info(id).args_complete
          /\ Info(id).args # EmptyDict
          /\ Get(strm.out[Len(strm.out) - 1], "args", NoneArgs) = Info(id).args

\* the contents of the Text events of events, concatenated in order
RECURSIVE TextContents(_)
TextContents(events) ==
    IF events = <<>> THEN <<>>
    ELSE (IF IsType(Head(events), "text")
          THEN Get(Head(events), "content", Str(<<>>)).lit ELSE <<>>)
            \o TextContents(Tail(events))

\* C21: in a turn that completes without error the response of the Done
\* event is the concatenation, in emission order, of the contents of the
\* Text events, and a StreamState that handled every event of the turn ends
\* with that string as response_text; a Done event supplies response_text
\* only when no text was accumulated and neither overwrites nor duplicates
\* accumulated text.
C21_ResponseAggregation ==
    strm.pc = "done"
        => LET events == SubSeq(strm.out, 1, Len(strm.out) - 1)
               before == HandleAll(NewStreamState, events)
               after == HandleAll(NewStreamState, strm.out)
           IN  /\ LastEvent = emit_done(TextContents(events))
               /\ before.response_text = TextContents(events)
               /\ after.response_text = TextContents(events)
               /\ \A r \in {<<>>, <<"o", "k">>} :
                     handle_event(before, emit_done(r)).response_text
                        = IF before.response_text = <<>> THEN r
                          ELSE before.response_text

\* a turn ended whose two Text events lie on either side of a ToolCall
\* event and whose Done event carries both texts
C21_Witness ==
    /\ strm.pc = "done"
    /\ CountType("text") = 2
    /\ CountType("tool_call") >= 1
    /\ LastEvent = emit_done(<<"h", "i", "!">>)

(***************************************************************************)
(* Further properties of the SSE bridge.                                   *)
(***************************************************************************)
IsAgentError(frame) ==
    startswith(frame, <<"e", "v", "e", "n", "t", ":", " ">> \o Chars("agent_error") \o <<"\n">>)
ErrorFrames == {i \in DOMAIN sse.frames : IsAgentError(sse.frames[i])}

\* C26: a stream holds at most one agent_error frame and no frame after it;
\* when the iterator raises after its Error event the bridge has forwarded
\* that event and adds no frame; when it raises without an Error event the
\* bridge writes one agent_error frame with the exception message; when the
\* client disconnects no frame is written.
C26_SingleErrorFrame ==
    /\ [](/\ Cardinality(ErrorFrames) <= 1
          /\ \A i \in ErrorFrames : i = Len(sse.frames))
    /\ [][(sse'.closed_by = "raised" /\ sse.error_emitted)
             => /\ sse'.frames = sse.frames
                /\ Cardinality(ErrorFrames) = 1
                /\ IsFrameOf(sse.frames[Len(sse.frames)], Chars("agent_error"),
                             sse.fed[Len(sse.fed)])]_vars
    /\ [][(sse'.closed_by = "raised" /\ ~sse.error_emitted)
             => /\ Len(sse'.frames) = Len(sse.frames) + 1
                /\ SubSeq(sse'.frames, 1, Len(sse.frames)) = sse.frames
                /\ IsFrameOf(sse'.frames[Len(sse'.frames)], Chars("agent_error"),
                             emit_error(Chars("boom")))]_vars
    /\ [][sse'.closed_by = "disconnected" => sse'.frames = sse.frames]_vars

\* the iterator raised after two events, the second its Error event: the
\* stream is closed with two frames, the last one the only agent_error frame
C26_Witness ==
    /\ sse.closed_by = "raised"
    /\ sse.error_emitted
    /\ Len(sse.fed) = 2
    /\ Len(sse.frames) = 2
    /\ ErrorFrames = {2}

====
